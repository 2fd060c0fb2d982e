-------------------------- MODULE Reporting_proofs --------------------------
(***************************************************************************)
(* Proofs about what the application server reports and what it keeps for  *)
(* its reports.                                                            *)
(* About Measurements, for any number of tails and requests and any        *)
(* capacities: how many tails may look at the shadow caches' queue at once *)
(* before one blocks on it, that reportLatency never blocks on the channel *)
(* it empties, and that no request is counted twice.                       *)
(* About ShadowPair, for any ids, sizes, capacities and resets of the hit  *)
(* ratios: that the size which decides about evictions is that of the      *)
(* entries in the list, and that what the smaller of the two caches holds  *)
(* are the most recent items of the larger.                                *)
(***************************************************************************)
EXTENDS Measurements, ShadowPair, SumTheorems, SequenceTheorems, TLAPS

(* Once the queue has reached the threshold no tail joins those about to   *)
(* push: what they have pushed since and have still to push was one below  *)
(* the threshold and all of them.                                          *)
Room ==
  /\ queryQ < QueryThreshold => crowd = Cardinality(Pushers)
  /\ queryQ >= QueryThreshold => queryQ + Cardinality(Pushers) <= QueryThreshold - 1 + crowd

(* What reportLatency loaded is still in the counter until it is set back. *)
Counted == NeverCountedTwice /\ (reporter = "store" => rc <= reqCount)

(* A tail that goes on has a key to report. *)
KeysLeft == \A w \in Workers : at[w] \in {"latency", "look", "push"} => keys[w] > 0

ChannelInv == ChannelTypeOK /\ KeysLeft /\ Room /\ TakeNeverBlocks /\ Counted
-----------------------------------------------------------------------------
LEMMA PushersFinite ==
  /\ IsFiniteSet(Pushers) /\ Cardinality(Pushers) \in Nat
  /\ Cardinality(Workers) \in Nat /\ Cardinality(Pushers) <= Cardinality(Workers)
<1>1. Pushers \in SUBSET Workers
  BY DEF Pushers
<1> QED  BY <1>1, WorkersAssumption, FS_Subset, FS_CardinalityType

LEMMA ChannelInitInv == ChannelInit => ChannelInv
<1> SUFFICES ASSUME ChannelInit PROVE ChannelInv
  OBVIOUS
<1> USE DEF ChannelInit
<1>1. ChannelTypeOK
  BY WorkersAssumption, LatAssumption, QueryAssumption, PushersFinite DEF ChannelTypeOK
<1>2. Room
  <2>1. Pushers = {}
    BY DEF Pushers
  <2> QED  BY <2>1, FS_EmptySet, QueryAssumption DEF Room
<1> QED  BY <1>1, <1>2 DEF ChannelInv, KeysLeft, TakeNeverBlocks, Counted, NeverCountedTwice

(* The note is a number of tails. *)
LEMMA CrowdStep ==
  ASSUME ChannelTypeOK, NoteCrowd PROVE crowd' \in 0 .. Cardinality(Workers)
<1>1. Pushers' \in SUBSET Workers
  BY DEF Pushers
<1>2. Cardinality(Pushers') \in Nat /\ Cardinality(Pushers') <= Cardinality(Workers)
  BY <1>1, WorkersAssumption, FS_Subset, FS_CardinalityType
<1> QED  BY <1>2, PushersFinite DEF NoteCrowd, ChannelTypeOK

LEMMA ChannelTypeStep == ChannelInv /\ [ChannelNext]_channelVars => ChannelTypeOK'
<1> SUFFICES ASSUME ChannelInv, [ChannelNext]_channelVars PROVE ChannelTypeOK'
  OBVIOUS
<1>0. ChannelTypeOK /\ TakeNeverBlocks /\ KeysLeft
  BY DEF ChannelInv
<1> USE <1>0, WorkersAssumption, LatAssumption, QueryAssumption
        DEF ChannelTypeOK, tailVars, sequenceVars, countVars, reporterVars, SendMeasurement
<1>1. ASSUME NEW w \in Workers, BeginTail(w) PROVE ChannelTypeOK'
  BY <1>1 DEF BeginTail
<1>2. ASSUME NEW w \in Workers, SendLatency(w) PROVE ChannelTypeOK'
  BY <1>2 DEF SendLatency
<1>3. ASSUME NEW w \in Workers, TailStep(w) PROVE ChannelTypeOK'
  <2>1. keys[w] > 0
    BY <1>3 DEF TailStep, LookAtQueries, PushQuery, KeysLeft
  <2>2. crowd' \in 0 .. Cardinality(Workers)
    BY <1>3, CrowdStep DEF TailStep, LookAtQueries, PushQuery
  <2> QED  BY <1>3, <2>1, <2>2 DEF TailStep, LookAtQueries, PushQuery, NextKey
<1>4. ASSUME NEW r \in Requests, CountRequest(r) \/ SendRequest(r) PROVE ChannelTypeOK'
  BY <1>4 DEF CountRequest, SendRequest
<1>5. ASSUME ProcessQuery \/ PingLook \/ PingSend PROVE ChannelTypeOK'
  <2>1. CASE ProcessQuery
    <3>1. crowd' \in 0 .. Cardinality(Workers)
      BY <2>1, CrowdStep DEF ProcessQuery
    <3> QED  BY <2>1, <3>1 DEF ProcessQuery
  <2>2. CASE PingLook \/ PingSend
    BY <2>2 DEF PingLook, PingSend
  <2> QED  BY <1>5, <2>1, <2>2
<1>6. CASE LookUpCount \/ Take \/ Post
  BY <1>6 DEF LookUpCount, Take, Post, PostSucceeds, PostFails, TakeNeverBlocks
<1>7. CASE Count
  BY <1>7 DEF Count, LoadCount, StoreZero, SumUp
<1>8. CASE UNCHANGED channelVars
  BY <1>8 DEF channelVars
<1> QED  BY <1>1, <1>2, <1>3, <1>4, <1>5, <1>6, <1>7, <1>8 DEF ChannelNext

LEMMA KeysLeftStep == ChannelInv /\ [ChannelNext]_channelVars => KeysLeft'
<1> SUFFICES ASSUME ChannelInv, [ChannelNext]_channelVars PROVE KeysLeft'
  OBVIOUS
<1>0. ChannelTypeOK /\ KeysLeft
  BY DEF ChannelInv
<1> USE <1>0, WorkersAssumption
        DEF ChannelTypeOK, KeysLeft, tailVars, sequenceVars, countVars, reporterVars, SendMeasurement
<1>1. ASSUME NEW w \in Workers, BeginTail(w) PROVE KeysLeft'
  BY <1>1 DEF BeginTail
<1>2. ASSUME NEW w \in Workers, SendLatency(w) PROVE KeysLeft'
  BY <1>2 DEF SendLatency
<1>3. ASSUME NEW w \in Workers, TailStep(w) PROVE KeysLeft'
  BY <1>3 DEF TailStep, LookAtQueries, PushQuery, NextKey
<1>4. ASSUME NEW r \in Requests, CountRequest(r) \/ SendRequest(r) PROVE KeysLeft'
  BY <1>4 DEF CountRequest, SendRequest
<1>5. ASSUME ProcessQuery \/ PingLook \/ PingSend PROVE KeysLeft'
  BY <1>5 DEF ProcessQuery, PingLook, PingSend
<1>6. CASE LookUpCount \/ Take \/ Post \/ Count \/ UNCHANGED channelVars
  BY <1>6 DEF LookUpCount, Take, Post, PostSucceeds, PostFails, Count, LoadCount,
              StoreZero, SumUp, channelVars
<1> QED  BY <1>1, <1>2, <1>3, <1>4, <1>5, <1>6 DEF ChannelNext

LEMMA RoomStep == ChannelInv /\ [ChannelNext]_channelVars => Room'
<1> SUFFICES ASSUME ChannelInv, [ChannelNext]_channelVars PROVE Room'
  OBVIOUS
<1>0. ChannelTypeOK /\ Room
  BY DEF ChannelInv
<1>p. Cardinality(Pushers) \in Nat /\ IsFiniteSet(Pushers) /\ crowd \in Nat
  BY <1>0, PushersFinite DEF ChannelTypeOK
<1>1. ASSUME NEW w \in Workers, BeginTail(w) \/ SendLatency(w) PROVE Room'
  <2>1. Pushers' = Pushers /\ UNCHANGED sequenceVars
    BY <1>1, <1>0 DEF Pushers, BeginTail, SendLatency, ChannelTypeOK
  <2> QED  BY <2>1, <1>0 DEF Room, sequenceVars
<1>2. ASSUME NEW w \in Workers, LookAtQueries(w) PROVE Room'
  <2>1. queryQ' = queryQ /\ NoteCrowd
    BY <1>2 DEF LookAtQueries
  <2>2. CASE queryQ < QueryThreshold
    BY <2>1, <2>2, <1>0, QueryAssumption DEF Room, NoteCrowd, ChannelTypeOK
  <2>3. CASE ~(queryQ < QueryThreshold)
    <3>1. Pushers' = Pushers
      BY <1>2, <2>3, <1>0 DEF LookAtQueries, NextKey, Pushers, ChannelTypeOK
    <3> QED  BY <2>1, <2>3, <3>1, <1>0 DEF Room, NoteCrowd
  <2> QED  BY <2>2, <2>3
<1>3. ASSUME NEW w \in Workers, PushQuery(w) PROVE Room'
  <2>1. w \in Pushers /\ Pushers' = Pushers \ {w} /\ queryQ' = queryQ + 1 /\ NoteCrowd
    BY <1>3, <1>0 DEF PushQuery, NextKey, Pushers, ChannelTypeOK
  <2>2. Cardinality(Pushers') = Cardinality(Pushers) - 1
    BY <2>1, <1>p, FS_RemoveElement
  <2> QED  BY <2>1, <2>2, <1>0, <1>p, QueryAssumption DEF Room, NoteCrowd, ChannelTypeOK
<1>4. CASE ProcessQuery
  <2>1. Pushers' = Pushers /\ queryQ' = queryQ - 1 /\ NoteCrowd
    BY <1>4 DEF ProcessQuery, Pushers, tailVars
  <2> QED  BY <2>1, <1>0, <1>p, QueryAssumption DEF Room, NoteCrowd, ChannelTypeOK
<1>5. CASE UNCHANGED <<tailVars, sequenceVars>>
  <2>1. Pushers' = Pushers
    BY <1>5 DEF Pushers, tailVars
  <2> QED  BY <1>5, <2>1, <1>0 DEF Room, sequenceVars
<1>6. (\E r \in Requests : CountRequest(r) \/ SendRequest(r)) => UNCHANGED <<tailVars, sequenceVars>>
  BY DEF CountRequest, SendRequest
<1>7. PingLook \/ PingSend \/ LookUpCount \/ Take \/ Post \/ Count \/ UNCHANGED channelVars
        => UNCHANGED <<tailVars, sequenceVars>>
  BY DEF PingLook, PingSend, LookUpCount, Take, Post, PostSucceeds, PostFails, Count,
         LoadCount, StoreZero, SumUp, channelVars
<1> QED  BY <1>1, <1>2, <1>3, <1>4, <1>5, <1>6, <1>7 DEF ChannelNext, TailStep

LEMMA ReporterStep == ChannelInv /\ [ChannelNext]_channelVars => TakeNeverBlocks' /\ Counted'
<1> SUFFICES ASSUME ChannelInv, [ChannelNext]_channelVars PROVE TakeNeverBlocks' /\ Counted'
  OBVIOUS
<1>0. ChannelTypeOK /\ TakeNeverBlocks /\ Counted
  BY DEF ChannelInv
<1> USE <1>0, LatAssumption
        DEF ChannelTypeOK, TakeNeverBlocks, Counted, NeverCountedTwice, tailVars, sequenceVars,
            countVars, reporterVars, SendMeasurement
<1>1. ASSUME NEW w \in Workers, BeginTail(w) \/ SendLatency(w) \/ TailStep(w)
      PROVE TakeNeverBlocks' /\ Counted'
  BY <1>1 DEF BeginTail, SendLatency, TailStep, LookAtQueries, PushQuery
<1>2. ASSUME NEW r \in Requests, CountRequest(r) \/ SendRequest(r)
      PROVE TakeNeverBlocks' /\ Counted'
  BY <1>2 DEF CountRequest, SendRequest
<1>3. CASE ProcessQuery \/ PingLook \/ PingSend
  BY <1>3 DEF ProcessQuery, PingLook, PingSend
<1>4. CASE LookUpCount \/ Take \/ Post
  BY <1>4 DEF LookUpCount, Take, Post, PostSucceeds, PostFails
<1>5. CASE Count
  BY <1>5 DEF Count, LoadCount, StoreZero, SumUp
<1>6. CASE UNCHANGED channelVars
  BY <1>6 DEF channelVars
<1> QED  BY <1>1, <1>2, <1>3, <1>4, <1>5, <1>6 DEF ChannelNext
-----------------------------------------------------------------------------
(* ChannelInv holds in every reachable state. *)
THEOREM ChannelInvariant == ChannelSafety => []ChannelInv
<1>1. ChannelInit => ChannelInv
  BY ChannelInitInv
<1>2. ChannelInv /\ [ChannelNext]_channelVars => ChannelInv'
  BY ChannelTypeStep, KeysLeftStep, RoomStep, ReporterStep DEF ChannelInv
<1> QED  BY <1>1, <1>2, PTL DEF ChannelSafety

(* The variables keep their types; the channels stay within their          *)
(* capacities, whatever those are.                                         *)
THEOREM ChannelTypeCorrect == ChannelSafety => []ChannelTypeOK
<1>1. ChannelInv => ChannelTypeOK
  BY DEF ChannelInv
<1> QED  BY <1>1, ChannelInvariant, PTL

(* For any number of tails and any capacities: as long as no more than fit *)
(* above the threshold, and one (10001 with the constants of the code),    *)
(* were between look and push when the queue was last below it, no tail    *)
(* blocks on querySequence.                                                *)
THEOREM PushesHaveRoom == ChannelSafety => []PushHasRoom
<1>1. ASSUME ChannelInv PROVE PushHasRoom
  <2> SUFFICES ASSUME Pushers # {}, crowd <= QueryCap - QueryThreshold + 1
               PROVE queryQ < QueryCap
    BY DEF PushHasRoom
  <2>1. Cardinality(Pushers) # 0
    BY PushersFinite, FS_EmptySet
  <2>2. Cardinality(Pushers) \in Nat /\ crowd \in Nat /\ queryQ \in Nat
    BY <1>1, PushersFinite DEF ChannelInv, ChannelTypeOK
  <2> QED  BY <1>1, <2>1, <2>2, QueryAssumption DEF ChannelInv, Room
<1> QED  BY <1>1, ChannelInvariant, PTL

(* reportLatency never blocks on latencyMeasurements: of what it counted   *)
(* with len, nobody else takes anything.                                   *)
THEOREM NoBlockedTake == ChannelSafety => []TakeNeverBlocks
<1>1. ChannelInv => TakeNeverBlocks
  BY DEF ChannelInv
<1> QED  BY <1>1, ChannelInvariant, PTL

(* Both lengths may be stale when they are used, and yet suffice. *)
THEOREM StaleLengthsDoSuffice == ChannelSafety => []StaleLengthsSuffice
BY PushesHaveRoom, NoBlockedTake, PTL DEF StaleLengthsSuffice

(* The load and the store of reqCount are not one atomic step, and yet no  *)
(* request counts twice, however many come between them.                   *)
THEOREM CountedOnce == ChannelSafety => []NeverCountedTwice
<1>1. ChannelInv => NeverCountedTwice
  BY DEF ChannelInv, Counted
<1> QED  BY <1>1, ChannelInvariant, PTL
-----------------------------------------------------------------------------
(* The largest member of a bounded set of numbers. *)
LEMMA Largest ==
  ASSUME NEW k \in Nat, NEW S \in SUBSET (0 .. k), S # {}
  PROVE  \E m \in S : \A j \in S : j <= m
<1> DEFINE G == {n \in Nat : \A T \in SUBSET (0 .. n) : T # {} => \E m \in T : \A j \in T : j <= m}
<1>1. 0 \in G
  <2> SUFFICES ASSUME NEW T \in SUBSET (0 .. 0), T # {}
               PROVE  \E m \in T : \A j \in T : j <= m
    OBVIOUS
  <2>1. PICK m \in T : TRUE
    OBVIOUS
  <2>2. \A j \in T : j = 0
    OBVIOUS
  <2> QED  BY <2>1, <2>2
<1>2. ASSUME NEW n \in G PROVE n + 1 \in G
  <2> SUFFICES ASSUME NEW T \in SUBSET (0 .. n + 1), T # {}
               PROVE  \E m \in T : \A j \in T : j <= m
    OBVIOUS
  <2>1. CASE n + 1 \in T
    BY <2>1
  <2>2. CASE n + 1 \notin T
    <3>1. T \in SUBSET (0 .. n)
      BY <2>2
    <3> QED  BY <3>1
  <2> QED  BY <2>1, <2>2
<1>3. k \in G
  <2> HIDE DEF G
  <2>1. \A n \in Nat : n \in G => n + 1 \in G
    BY <1>2
  <2> QED  BY <1>1, <2>1, NatInductionOnSet
<1> QED  BY <1>3

LEMMA EntrySize == ASSUME NEW e \in Entries PROVE e.size \in Int /\ e.id \in Ids
<1>1. e.size \in Sizes /\ e.id \in Ids
  BY DEF Entries
<1>2. e.size \in Nat \/ e.size = -1
  BY <1>1, SizesAssumption
<1> QED  BY <1>1, <1>2

LEMMA SizeOfEmpty == SizeOf(<<>>) = 0
<1> DEFINE f == [i \in DOMAIN <<>> |-> <<>>[i].size]
<1>1. DOMAIN f = {}
  OBVIOUS
<1>2. SizeOf(<<>>) = SumFunctionOnSet(f, DOMAIN f)
  BY DEF SizeOf, SumFunction
<1>3. SumFunctionOnSet(f, {}) = 0
  <2> HIDE DEF f
  <2>1. IsFiniteSet({})
    BY FS_EmptySet
  <2> QED  BY <2>1, SumEquation
<1> HIDE DEF f
<1> QED  BY <1>1, <1>2, <1>3

LEMMA SizeOfAppend ==
  ASSUME NEW s \in Seq(Entries), NEW e \in Entries
  PROVE  SizeOf(Append(s, e)) = SizeOf(s) + e.size /\ SizeOf(s) \in Int
<1> DEFINE n == Len(s)
           t == Append(s, e)
           f == [i \in DOMAIN s |-> s[i].size]
           g == [i \in DOMAIN t |-> t[i].size]
<1>1. n \in Nat /\ DOMAIN s = 1 .. n /\ DOMAIN t = (1 .. n) \cup {n + 1}
  OBVIOUS
<1>2. t \in Seq(Entries) /\ t[n + 1] = e /\ \A i \in 1 .. n : t[i] = s[i] /\ s[i] \in Entries
  OBVIOUS
<1>3. \A i \in 1 .. n : f[i] \in Int /\ g[i] = f[i]
  BY <1>1, <1>2, EntrySize
<1>4. g[n + 1] = e.size /\ e.size \in Int
  BY <1>1, <1>2, EntrySize
<1>5. IsFiniteSet(1 .. n) /\ n + 1 \notin 1 .. n
  BY <1>1, FS_Interval
<1>6. SizeOf(s) = SumFunctionOnSet(f, 1 .. n) /\ SizeOf(t) = SumFunctionOnSet(g, (1 .. n) \cup {n + 1})
  BY <1>1 DEF SizeOf, SumFunction
<1> HIDE DEF f, g, n
<1>7. SumFunctionOnSet(g, (1 .. n) \cup {n + 1}) = g[n + 1] + SumFunctionOnSet(g, 1 .. n)
  <2>1. \A i \in (1 .. n) \cup {n + 1} : g[i] \in Int
    BY <1>3, <1>4
  <2> QED  BY <1>5, <2>1, SumInsert
<1>8. SumFunctionOnSet(g, 1 .. n) = SumFunctionOnSet(f, 1 .. n) /\ SumFunctionOnSet(f, 1 .. n) \in Int
  <2>1. SumFunctionOnSet(f, 1 .. n) \in Int
    BY <1>3, <1>5, SumRemove
  <2> QED  BY <1>3, <1>5, <2>1, SumCompare
<1> QED  BY <1>4, <1>6, <1>7, <1>8

LEMMA SizeOfConcat ==
  ASSUME NEW s \in Seq(Entries), NEW t \in Seq(Entries)
  PROVE  /\ s \o t \in Seq(Entries)
         /\ SizeOf(s) \in Int /\ SizeOf(t) \in Int
         /\ SizeOf(s \o t) = SizeOf(s) + SizeOf(t)
<1> DEFINE G == {n \in Nat : \A u \in Seq(Entries) :
                    Len(u) = n => SizeOf(u) \in Int /\ SizeOf(s \o u) = SizeOf(s) + SizeOf(u)}
<1>0. SizeOf(s) \in Int
  <2>1. CASE s = <<>>
    BY <2>1, SizeOfEmpty
  <2>2. CASE s # <<>>
    <3>1. s[1] \in Entries
      BY <2>2
    <3> QED  BY <3>1, SizeOfAppend
  <2> QED  BY <2>1, <2>2
<1>1. 0 \in G
  <2> SUFFICES ASSUME NEW u \in Seq(Entries), Len(u) = 0
               PROVE  SizeOf(u) \in Int /\ SizeOf(s \o u) = SizeOf(s) + SizeOf(u)
    OBVIOUS
  <2>1. u = <<>> /\ s \o u = s
    BY EmptySeq, ConcatEmptySeq
  <2> QED  BY <1>0, <2>1, SizeOfEmpty
<1>2. ASSUME NEW n \in G PROVE n + 1 \in G
  <2> SUFFICES ASSUME NEW u \in Seq(Entries), Len(u) = n + 1
               PROVE  SizeOf(u) \in Int /\ SizeOf(s \o u) = SizeOf(s) + SizeOf(u)
    OBVIOUS
  <2> DEFINE v == SubSeq(u, 1, n)
             e == u[n + 1]
  <2>0. n \in Nat
    OBVIOUS
  <2>1. v \in Seq(Entries) /\ Len(v) = n /\ e \in Entries /\ \A i \in 1 .. n : v[i] = u[i]
    <3>1. \A i \in 1 .. n + 1 : u[i] \in Entries
      BY <2>0
    <3> QED  BY <2>0, <3>1, SubSeqProperties
  <2>2. u = Append(v, e)
    <3> HIDE DEF v, e
    <3>1. Append(v, e) \in Seq(Entries) /\ Len(Append(v, e)) = n + 1
      BY <2>0, <2>1
    <3>2. \A i \in 1 .. n + 1 : Append(v, e)[i] = u[i]
      BY <2>0, <2>1 DEF e
    <3> QED  BY <3>1, <3>2, SeqEqual
  <2>3. s \o v \in Seq(Entries) /\ s \o u = Append(s \o v, e)
    <3> HIDE DEF v, e
    <3>1. s \o v \in Seq(Entries) /\ <<e>> \in Seq(Entries)
      BY <2>1
    <3>2. u = v \o <<e>> /\ Append(s \o v, e) = (s \o v) \o <<e>>
      BY <2>1, <2>2, <3>1, AppendIsConcat
    <3> QED  BY SMTT(30), <2>1, <3>1, <3>2, ConcatAssociative
  <2>4. SizeOf(v) \in Int /\ SizeOf(s \o v) = SizeOf(s) + SizeOf(v)
    BY <2>1
  <2> HIDE DEF v, e
  <2>5. SizeOf(u) = SizeOf(v) + e.size /\ SizeOf(s \o u) = SizeOf(s \o v) + e.size
    BY <2>1, <2>2, <2>3, SizeOfAppend
  <2> QED  BY <1>0, <2>1, <2>4, <2>5, EntrySize
<1>3. Len(t) \in G
  <2> HIDE DEF G
  <2>1. \A n \in Nat : n \in G => n + 1 \in G
    BY <1>2
  <2> QED  BY <1>1, <2>1, NatInductionOnSet
<1> QED  BY <1>0, <1>3
-----------------------------------------------------------------------------
Unique(list) == \A i, j \in DOMAIN list : list[i].id = list[j].id => i = j
Starts(s, t) == Len(s) <= Len(t) /\ \A i \in 1 .. Len(s) : s[i] = t[i]

LEMMA Together ==
  ASSUME NEW list \in Seq(Entries), NEW s \in Seq(Entries), NEW t \in Seq(Entries),
         Len(list) = Len(s) + Len(t),
         \A i \in 1 .. Len(s) : s[i] = list[i],
         \A i \in 1 .. Len(t) : t[i] = list[Len(s) + i]
  PROVE  list = s \o t
<1>1. /\ s \o t \in Seq(Entries) /\ Len(s \o t) = Len(s) + Len(t)
      /\ \A i \in 1 .. Len(s) + Len(t) :
           (s \o t)[i] = IF i <= Len(s) THEN s[i] ELSE t[i - Len(s)]
  BY ConcatProperties
<1>2. Len(s) \in Nat /\ Len(t) \in Nat
  OBVIOUS
<1>3. ASSUME NEW i \in 1 .. Len(list) PROVE list[i] = (s \o t)[i]
  <2>1. CASE i <= Len(s)
    BY <1>1, <1>2, <2>1
  <2>2. CASE ~(i <= Len(s))
    <3>1. i - Len(s) \in 1 .. Len(t) /\ Len(s) + (i - Len(s)) = i
      BY <1>2, <2>2
    <3> QED  BY <1>1, <2>2, <3>1
  <2> QED  BY <2>1, <2>2
<1>4. Len(list) = Len(s \o t)
  BY <1>1
<1> QED  BY <1>1, <1>3, <1>4, SeqEqual

(* A list up to a place and from there on. *)
LEMMA FirstPart ==
  ASSUME NEW list \in Seq(Entries), NEW n \in 0 .. Len(list)
  PROVE  /\ SubSeq(list, 1, n) \in Seq(Entries) /\ Len(SubSeq(list, 1, n)) = n
         /\ \A i \in 1 .. n : SubSeq(list, 1, n)[i] = list[i]
<1>1. n \in Nat /\ \A i \in 1 .. n : list[i] \in Entries
  OBVIOUS
<1>2. /\ SubSeq(list, 1, n) \in Seq(Entries)
      /\ Len(SubSeq(list, 1, n)) = IF 1 <= n THEN n - 1 + 1 ELSE 0
      /\ \A i \in 1 .. n - 1 + 1 : SubSeq(list, 1, n)[i] = list[1 + i - 1]
  BY <1>1, SubSeqProperties
<1> QED  BY <1>1, <1>2

LEMMA LastPart ==
  ASSUME NEW list \in Seq(Entries), NEW n \in 0 .. Len(list)
  PROVE  /\ SubSeq(list, n + 1, Len(list)) \in Seq(Entries)
         /\ Len(SubSeq(list, n + 1, Len(list))) = Len(list) - n
         /\ \A i \in 1 .. Len(list) - n : SubSeq(list, n + 1, Len(list))[i] = list[n + i]
<1>1. /\ n \in Nat /\ Len(list) \in Nat /\ n <= Len(list)
      /\ \A i \in n + 1 .. Len(list) : list[i] \in Entries
  OBVIOUS
<1>2. /\ SubSeq(list, n + 1, Len(list)) \in Seq(Entries)
      /\ Len(SubSeq(list, n + 1, Len(list))) = IF n + 1 <= Len(list) THEN Len(list) - (n + 1) + 1 ELSE 0
      /\ \A i \in 1 .. Len(list) - (n + 1) + 1 :
           SubSeq(list, n + 1, Len(list))[i] = list[(n + 1) + i - 1]
  BY <1>1, SubSeqProperties
<1> QED  BY <1>1, <1>2

LEMMA Parts ==
  ASSUME NEW list \in Seq(Entries), NEW n \in 0 .. Len(list)
  PROVE  /\ SizeOf(SubSeq(list, 1, n)) \in Int
         /\ SizeOf(SubSeq(list, n + 1, Len(list))) \in Int
         /\ SizeOf(list) = SizeOf(SubSeq(list, 1, n)) + SizeOf(SubSeq(list, n + 1, Len(list)))
<1> DEFINE s == SubSeq(list, 1, n)
           t == SubSeq(list, n + 1, Len(list))
<1>1. s \in Seq(Entries) /\ Len(s) = n /\ \A i \in 1 .. n : s[i] = list[i]
  BY FirstPart
<1>2. /\ t \in Seq(Entries) /\ Len(t) = Len(list) - n
      /\ \A i \in 1 .. Len(list) - n : t[i] = list[n + i]
  BY LastPart
<1> HIDE DEF s, t
<1>3. list = s \o t
  <2>1. Len(list) = Len(s) + Len(t)
    BY <1>1, <1>2
  <2>2. (\A i \in 1 .. Len(s) : s[i] = list[i]) /\ \A i \in 1 .. Len(t) : t[i] = list[Len(s) + i]
    BY <1>1, <1>2
  <2> QED  BY <1>1, <1>2, <2>1, <2>2, Together
<1> QED  BY <1>1, <1>2, <1>3, SizeOfConcat DEF s, t

LEMMA PrefixStarts ==
  ASSUME NEW s \in Seq(Entries), NEW t \in Seq(Entries)
  PROVE  /\ IsPrefix(s, t) <=> Starts(s, t)
         /\ Starts(s, t) => s = SubSeq(t, 1, Len(s))
<1>0. Len(s) \in Nat /\ Len(t) \in Nat
  OBVIOUS
<1>1. SubSeq(s, 1, Len(s)) = s
  OBVIOUS
<1>2. ASSUME Len(s) <= Len(t)
      PROVE  s = SubSeq(t, 1, Len(s)) <=> \A i \in 1 .. Len(s) : s[i] = t[i]
  <2> DEFINE u == SubSeq(t, 1, Len(s))
  <2>1. u \in Seq(Entries) /\ Len(u) = Len(s) /\ \A i \in 1 .. Len(s) : u[i] = t[i]
    <3>1. Len(s) \in 0 .. Len(t)
      BY <1>0, <1>2
    <3> QED  BY <3>1, FirstPart
  <2> HIDE DEF u
  <2>2. (\A i \in 1 .. Len(s) : s[i] = t[i]) => s = u
    BY <2>1, SeqEqual
  <2> QED  BY <2>1, <2>2 DEF u
<1> QED  BY <1>1, <1>2 DEF IsPrefix, Starts

(* The place in a list from which an element moves to its front. *)
Place(i, k) == IF k = 1 THEN i ELSE IF k <= i THEN k - 1 ELSE k

LEMMA MovedToFront ==
  ASSUME NEW list \in Seq(Entries), Unique(list), NEW i \in 1 .. Len(list),
         NEW moved, moved = MoveToFront(list, list[i].id)
  PROVE  /\ moved \in Seq(Entries) /\ Len(moved) = Len(list) /\ Unique(moved)
         /\ SizeOf(moved) = SizeOf(list)
         /\ \A k \in 1 .. Len(list) : moved[k] = list[Place(i, k)]
<1> DEFINE e == list[i]
<1> DEFINE s == SubSeq(list, 1, i - 1)
           t == SubSeq(list, (i - 1) + 1, Len(list))
           u == SubSeq(list, i + 1, Len(list))
<1>0. Len(list) \in Nat /\ i \in Nat /\ 1 <= i /\ i <= Len(list) /\ e \in Entries
  OBVIOUS
<1>1. moved = <<e>> \o (s \o u)
  <2>1. i = CHOOSE j \in DOMAIN list : list[j].id = list[i].id
    BY DEF Unique
  <2> QED  BY <2>1 DEF MoveToFront, RemoveAt
<1>2. /\ s \in Seq(Entries) /\ Len(s) = i - 1 /\ \A k \in 1 .. i - 1 : s[k] = list[k]
      /\ t \in Seq(Entries) /\ SizeOf(s) \in Int /\ SizeOf(t) \in Int
      /\ SizeOf(list) = SizeOf(s) + SizeOf(t)
      /\ Len(t) = Len(list) - (i - 1) /\ \A k \in 1 .. Len(list) - (i - 1) : t[k] = list[(i - 1) + k]
  <2>1. i - 1 \in 0 .. Len(list)
    BY <1>0
  <2> QED  BY <2>1, FirstPart, LastPart, Parts
<1>3. /\ u \in Seq(Entries) /\ Len(u) = Len(list) - i /\ SizeOf(u) \in Int
      /\ \A k \in 1 .. Len(list) - i : u[k] = list[i + k]
  <2>1. i \in 0 .. Len(list)
    BY <1>0
  <2> QED  BY <2>1, LastPart, Parts
<1> HIDE DEF e, s, t, u
<1>4. <<e>> \in Seq(Entries) /\ Len(<<e>>) = 1 /\ <<e>>[1] = e
  BY <1>0
<1>5. t = <<e>> \o u
  <2>1. Len(t) = Len(<<e>>) + Len(u)
    BY <1>0, <1>2, <1>3, <1>4
  <2>2. \A k \in 1 .. Len(<<e>>) : <<e>>[k] = t[k]
    <3>1. t[1] = list[(i - 1) + 1] /\ (i - 1) + 1 = i
      BY <1>0, <1>2
    <3> QED  BY <1>4, <3>1 DEF e
  <2>3. ASSUME NEW k \in 1 .. Len(u) PROVE u[k] = t[Len(<<e>>) + k]
    <3>1. 1 + k \in 1 .. Len(list) - (i - 1) /\ (i - 1) + (1 + k) = i + k /\ k \in 1 .. Len(list) - i
      BY <1>0, <1>3
    <3>2. t[1 + k] = list[(i - 1) + (1 + k)] /\ u[k] = list[i + k]
      BY <1>2, <1>3, <3>1
    <3> QED  BY <1>4, <3>1, <3>2
  <2> QED  BY <1>2, <1>3, <1>4, <2>1, <2>2, <2>3, Together
<1>6. /\ s \o u \in Seq(Entries) /\ Len(s \o u) = (i - 1) + (Len(list) - i)
      /\ \A k \in 1 .. (i - 1) + (Len(list) - i) :
           (s \o u)[k] = IF k <= i - 1 THEN s[k] ELSE u[k - (i - 1)]
  <2>1. /\ s \o u \in Seq(Entries) /\ Len(s \o u) = Len(s) + Len(u)
        /\ \A k \in 1 .. Len(s) + Len(u) :
             (s \o u)[k] = IF k <= Len(s) THEN s[k] ELSE u[k - Len(s)]
    BY <1>2, <1>3, ConcatProperties
  <2> QED  BY <1>2, <1>3, <2>1
<1>7. /\ moved \in Seq(Entries) /\ Len(moved) = 1 + ((i - 1) + (Len(list) - i))
      /\ \A k \in 1 .. 1 + ((i - 1) + (Len(list) - i)) :
           moved[k] = IF k <= 1 THEN <<e>>[k] ELSE (s \o u)[k - 1]
  <2>0. PICK v : v = s \o u
    OBVIOUS
  <2>1. v \in Seq(Entries) /\ Len(v) = (i - 1) + (Len(list) - i) /\ moved = <<e>> \o v
    BY <1>1, <1>6, <2>0
  <2>2. /\ <<e>> \o v \in Seq(Entries) /\ Len(<<e>> \o v) = Len(<<e>>) + Len(v)
        /\ \A k \in 1 .. Len(<<e>>) + Len(v) :
             (<<e>> \o v)[k] = IF k <= Len(<<e>>) THEN <<e>>[k] ELSE v[k - Len(<<e>>)]
    BY <1>4, <2>1, ConcatProperties
  <2> QED  BY <1>4, <2>0, <2>1, <2>2
<1>8. SizeOf(moved) = SizeOf(list)
  <2>1. SizeOf(t) = SizeOf(<<e>>) + SizeOf(u) /\ SizeOf(<<e>>) \in Int
    BY <1>3, <1>4, <1>5, SizeOfConcat
  <2>2. SizeOf(s \o u) = SizeOf(s) + SizeOf(u)
    BY <1>2, <1>3, SizeOfConcat
  <2>3. SizeOf(moved) = SizeOf(<<e>>) + SizeOf(s \o u)
    BY <1>1, <1>4, <1>6, SizeOfConcat
  <2> QED  BY <1>2, <1>3, <2>1, <2>2, <2>3
<1>9. Len(moved) = Len(list) /\ \A k \in 1 .. Len(list) : moved[k] = list[Place(i, k)]
  <2>1. 1 + ((i - 1) + (Len(list) - i)) = Len(list)
    BY <1>0
  <2> SUFFICES ASSUME NEW k \in 1 .. Len(list) PROVE moved[k] = list[Place(i, k)]
    BY <1>7, <2>1
  <2>2. CASE k = 1
    BY <1>4, <1>7, <2>1, <2>2 DEF Place, e
  <2>3. CASE k # 1 /\ k <= i
    <3>1. k - 1 \in 1 .. i - 1 /\ k - 1 \in 1 .. (i - 1) + (Len(list) - i) /\ ~(k <= 1)
      BY <1>0, <2>3
    <3> QED  BY SMTT(30), <1>2, <1>6, <1>7, <2>1, <2>3, <3>1 DEF Place
  <2>4. CASE k # 1 /\ ~(k <= i)
    <3>1. /\ k - 1 \in 1 .. (i - 1) + (Len(list) - i) /\ ~(k <= 1) /\ ~(k - 1 <= i - 1)
          /\ (k - 1) - (i - 1) \in 1 .. Len(list) - i /\ i + ((k - 1) - (i - 1)) = k
      BY <1>0, <2>4
    <3> QED  BY <1>3, <1>6, <1>7, <2>1, <2>4, <3>1 DEF Place
  <2> QED  BY <2>2, <2>3, <2>4
<1>10. Unique(moved)
  <2> SUFFICES ASSUME NEW j \in 1 .. Len(list), NEW k \in 1 .. Len(list), moved[j].id = moved[k].id
               PROVE  j = k
    <3>1. DOMAIN moved = 1 .. Len(list)
      BY <1>7, <1>9
    <3> QED  BY <3>1 DEF Unique
  <2>1. Place(i, j) \in 1 .. Len(list) /\ Place(i, k) \in 1 .. Len(list)
    BY <1>0 DEF Place
  <2>2. Place(i, j) = Place(i, k)
    BY <1>9, <2>1 DEF Unique
  <2> QED  BY <1>0, <2>2 DEF Place
<1> QED  BY <1>7, <1>8, <1>9, <1>10

(* What is kept is the longest part of the list that fits. *)
LEMMA KeptFits ==
  ASSUME NEW list \in Seq(Entries), NEW cap \in Nat,
         NEW n, n = Kept(list, SizeOf(list), cap)
  PROVE  /\ n \in 0 .. Len(list)
         /\ SizeOf(SubSeq(list, 1, n)) <= cap
         /\ \A m \in 0 .. Len(list) : SizeOf(SubSeq(list, 1, m)) <= cap => m <= n
<1> DEFINE Left(j) == SizeOf(list) - SizeOf(SubSeq(list, j + 1, Len(list)))
           Fits == {j \in 0 .. Len(list) : Left(j) <= cap}
           Is(j) == Left(j) <= cap /\ \A m \in j + 1 .. Len(list) : Left(m) > cap
<1>0. Len(list) \in Nat
  OBVIOUS
<1>1. ASSUME NEW j \in 0 .. Len(list) PROVE Left(j) = SizeOf(SubSeq(list, 1, j)) /\ Left(j) \in Int
  <2> DEFINE s == SubSeq(list, 1, j)
             t == SubSeq(list, j + 1, Len(list))
  <2>1. SizeOf(s) \in Int /\ SizeOf(t) \in Int /\ SizeOf(list) = SizeOf(s) + SizeOf(t)
    BY Parts
  <2> HIDE DEF s, t
  <2>2. SizeOf(list) - SizeOf(t) = SizeOf(s)
    BY <2>1
  <2> QED  BY <2>1, <2>2 DEF s, t
<1>2. Left(0) = 0
  <2>1. SubSeq(list, 1, 0) = <<>>
    BY SubSeqEmpty
  <2>2. 0 \in 0 .. Len(list)
    BY <1>0
  <2>3. Left(0) = SizeOf(SubSeq(list, 1, 0))
    BY <1>1, <2>2
  <2> QED  BY <2>1, <2>3, SizeOfEmpty
<1> HIDE DEF Left
<1>3. PICK m \in Fits : \A j \in Fits : j <= m
  <2>1. 0 \in Fits
    BY <1>0, <1>2
  <2>2. Fits \in SUBSET (0 .. Len(list)) /\ Fits # {}
    BY <2>1
  <2> HIDE DEF Fits
  <2> QED  BY <1>0, <2>2, Largest
<1>4. Is(m)
  <2>1. Left(m) <= cap
    OBVIOUS
  <2>2. ASSUME NEW j \in m + 1 .. Len(list) PROVE Left(j) > cap
    <3>1. j \in 0 .. Len(list) /\ ~(j <= m)
      BY <1>0
    <3>2. ~(Left(j) <= cap)
      BY <1>3, <3>1
    <3> QED  BY <1>1, <3>1, <3>2
  <2> QED  BY <2>1, <2>2
<1>5. Kept(list, SizeOf(list), cap) = CHOOSE j \in 0 .. Len(list) : Is(j)
  BY DEF Kept, Left
<1>7. n \in 0 .. Len(list) /\ Is(n)
  <2> HIDE DEF Is
  <2>1. m \in 0 .. Len(list)
    OBVIOUS
  <2> QED  BY <1>4, <1>5, <2>1
<1>8. ASSUME NEW j \in 0 .. Len(list), SizeOf(SubSeq(list, 1, j)) <= cap PROVE j <= n
  <2>1. Left(j) <= cap /\ Left(j) \in Int
    BY <1>1, <1>8
  <2>2. ~(j \in n + 1 .. Len(list))
    BY <1>7, <2>1
  <2> QED  BY <1>0, <1>7, <2>2
<1>9. SizeOf(SubSeq(list, 1, n)) <= cap
  BY <1>1, <1>7
<1> QED  BY <1>7, <1>8, <1>9

(* What a request makes of a list. *)
After(list, q, cap) ==
  IF q.id \in IdsOf(list) THEN MoveToFront(list, q.id)
  ELSE SubSeq(<<q>> \o list, 1, Kept(<<q>> \o list, SizeOf(<<q>> \o list), cap))

LEMMA Pushed ==
  ASSUME NEW list \in Seq(Entries), NEW q \in Entries, NEW pushed, pushed = <<q>> \o list
  PROVE  /\ pushed \in Seq(Entries) /\ Len(pushed) = Len(list) + 1
         /\ pushed[1] = q /\ \A k \in 1 .. Len(list) : pushed[k + 1] = list[k]
         /\ SizeOf(list) \in Int /\ SizeOf(pushed) = q.size + SizeOf(list)
         /\ Unique(list) /\ q.id \notin IdsOf(list) => Unique(pushed)
<1>1. <<q>> \in Seq(Entries) /\ Len(<<q>>) = 1 /\ <<q>>[1] = q /\ Len(list) \in Nat
  OBVIOUS
<1>2. /\ pushed \in Seq(Entries) /\ Len(pushed) = Len(<<q>>) + Len(list)
      /\ \A k \in 1 .. Len(<<q>>) + Len(list) :
           pushed[k] = IF k <= Len(<<q>>) THEN <<q>>[k] ELSE list[k - Len(<<q>>)]
  BY <1>1, ConcatProperties
<1>3. Len(pushed) = Len(list) + 1 /\ pushed[1] = q
  <2>1. 1 \in 1 .. Len(<<q>>) + Len(list) /\ 1 <= Len(<<q>>)
    BY <1>1
  <2> QED  BY <1>1, <1>2, <2>1
<1>4. ASSUME NEW k \in 1 .. Len(list) PROVE pushed[k + 1] = list[k]
  <2>1. k + 1 \in 1 .. Len(<<q>>) + Len(list) /\ ~(k + 1 <= Len(<<q>>)) /\ (k + 1) - Len(<<q>>) = k
    BY <1>1
  <2> QED  BY <1>2, <2>1
<1>5. SizeOf(list) \in Int /\ SizeOf(pushed) = q.size + SizeOf(list)
  <2>1. SizeOf(<<q>>) = q.size
    <3>1. <<q>> = Append(<<>>, q) /\ <<>> \in Seq(Entries)
      OBVIOUS
    <3>2. SizeOf(Append(<<>>, q)) = SizeOf(<<>>) + q.size
      BY <3>1, SizeOfAppend
    <3>3. q.size \in Int
      BY EntrySize
    <3> QED  BY <3>1, <3>2, <3>3, SizeOfEmpty
  <2>2. SizeOf(list) \in Int /\ SizeOf(pushed) = SizeOf(<<q>>) + SizeOf(list)
    BY <1>1, SizeOfConcat
  <2> QED  BY <2>1, <2>2
<1>6. ASSUME Unique(list), q.id \notin IdsOf(list) PROVE Unique(pushed)
  <2> SUFFICES ASSUME NEW j \in 1 .. Len(list) + 1, NEW k \in 1 .. Len(list) + 1,
                      pushed[j].id = pushed[k].id
               PROVE  j = k
    BY <1>2, <1>3 DEF Unique
  <2>0. DOMAIN list = 1 .. Len(list) /\ \A i \in 1 .. Len(list) : list[i].id # q.id
    BY <1>6 DEF IdsOf
  <2>1. \A i \in 1 .. Len(list) + 1 : i = 1 \/ (i - 1 \in 1 .. Len(list) /\ pushed[i] = list[i - 1])
    <3> SUFFICES ASSUME NEW i \in 1 .. Len(list) + 1, i # 1
                 PROVE  i - 1 \in 1 .. Len(list) /\ pushed[i] = list[i - 1]
      OBVIOUS
    <3>1. i - 1 \in 1 .. Len(list) /\ (i - 1) + 1 = i
      BY <1>1
    <3> QED  BY <1>4, <3>1
  <2>2. CASE j = 1 \/ k = 1
    BY <1>3, <2>0, <2>1, <2>2
  <2>3. CASE j # 1 /\ k # 1
    <3>1. j - 1 = k - 1
      BY SMTT(30), <1>6, <2>0, <2>1, <2>3 DEF Unique
    <3> QED  BY <3>1
  <2> QED  BY <2>2, <2>3
<1> QED  BY <1>2, <1>3, <1>4, <1>5, <1>6

(* The first n entries are left, and the sizes of the others subtracted. *)
Leaves(list, q, n, new) ==
  LET pushed == <<q>> \o list
  IN  /\ new = SubSeq(pushed, 1, n)
      /\ SizeOf(new) = SizeOf(list) + q.size - SizeOf(SubSeq(pushed, n + 1, Len(pushed)))

(* What is left of two sizes once those of the last entries are subtracted. *)
LEMMA Difference ==
  ASSUME NEW pushed \in Seq(Entries), NEW n \in 0 .. Len(pushed),
         NEW a \in Int, NEW b \in Int, SizeOf(pushed) = a + b
  PROVE  SizeOf(SubSeq(pushed, 1, n)) = b + a - SizeOf(SubSeq(pushed, n + 1, Len(pushed)))
<1> DEFINE s == SizeOf(SubSeq(pushed, 1, n))
           t == SizeOf(SubSeq(pushed, n + 1, Len(pushed)))
<1>1. s \in Int /\ t \in Int /\ SizeOf(pushed) = s + t
  BY Parts
<1> HIDE DEF s, t
<1>2. s = b + a - t
  BY <1>1
<1> QED  BY <1>2 DEF s, t

(* A miss admits the query and keeps the most recent entries that fit. *)
LEMMA AfterMiss ==
  ASSUME NEW list \in Seq(Entries), Unique(list), NEW q \in Entries, NEW cap \in Nat,
         q.id \notin IdsOf(list), NEW new, new = After(list, q, cap),
         NEW pushed, pushed = <<q>> \o list
  PROVE  /\ new \in Seq(Entries) /\ Unique(new) /\ Starts(new, pushed) /\ SizeOf(new) <= cap
         /\ \A s \in Seq(Entries) : Starts(s, pushed) /\ SizeOf(s) <= cap => Starts(s, new)
         /\ \A n : n = Kept(pushed, SizeOf(list) + q.size, cap) =>
              Leaves(list, q, n, new)
<1>1. /\ pushed \in Seq(Entries) /\ Unique(pushed) /\ Len(pushed) \in Nat
      /\ SizeOf(list) \in Int /\ SizeOf(pushed) = q.size + SizeOf(list) /\ q.size \in Int
  <2>1. /\ pushed \in Seq(Entries)
        /\ SizeOf(list) \in Int /\ SizeOf(pushed) = q.size + SizeOf(list)
    BY Pushed
  <2>2. Unique(pushed)
    BY Pushed
  <2>3. q.size \in Int
    BY EntrySize
  <2> QED  BY <2>1, <2>2, <2>3
<1>2. PICK n : n = Kept(pushed, SizeOf(pushed), cap)
  OBVIOUS
<1>3. /\ n \in 0 .. Len(pushed) /\ SizeOf(SubSeq(pushed, 1, n)) <= cap
      /\ \A m \in 0 .. Len(pushed) : SizeOf(SubSeq(pushed, 1, m)) <= cap => m <= n
  BY <1>1, <1>2, KeptFits
<1>4. new = SubSeq(pushed, 1, n)
  BY <1>2 DEF After
<1>5. new \in Seq(Entries) /\ Len(new) = n /\ \A i \in 1 .. n : new[i] = pushed[i]
  BY <1>1, <1>3, <1>4, FirstPart
<1>6. Unique(new)
  <2> SUFFICES ASSUME NEW i \in 1 .. n, NEW j \in 1 .. n, new[i].id = new[j].id PROVE i = j
    BY <1>5 DEF Unique
  <2>1. i \in DOMAIN pushed /\ j \in DOMAIN pushed
    BY <1>1, <1>3
  <2> QED  BY <1>1, <1>5, <2>1 DEF Unique
<1>7. Starts(new, pushed)
  BY <1>1, <1>3, <1>5 DEF Starts
<1>8. ASSUME NEW s \in Seq(Entries), Starts(s, pushed), SizeOf(s) <= cap PROVE Starts(s, new)
  <2>1. Len(s) \in 0 .. Len(pushed) /\ s = SubSeq(pushed, 1, Len(s))
    BY <1>1, <1>8, PrefixStarts DEF Starts
  <2>2. Len(s) <= n
    BY <1>3, <1>8, <2>1
  <2>3. \A i \in 1 .. Len(s) : i \in 1 .. n
    BY <1>3, <2>1, <2>2
  <2> QED  BY <1>5, <1>8, <2>2, <2>3 DEF Starts
<1>9. SizeOf(new) = SizeOf(list) + q.size - SizeOf(SubSeq(pushed, n + 1, Len(pushed)))
  <2>1. SizeOf(SubSeq(pushed, 1, n))
          = SizeOf(list) + q.size - SizeOf(SubSeq(pushed, n + 1, Len(pushed)))
    BY <1>1, <1>3, Difference
  <2> QED  BY <1>4, <2>1, Zenon
<1>10. SizeOf(list) + q.size = SizeOf(pushed)
  BY <1>1
<1>11. SizeOf(new) <= cap
  BY <1>3, <1>4
<1>12. Leaves(list, q, n, new)
  BY <1>4, <1>9, Zenon DEF Leaves
<1> QED  BY <1>2, <1>5, <1>6, <1>7, <1>8, <1>10, <1>11, <1>12

LEMMA AfterHit ==
  ASSUME NEW list \in Seq(Entries), Unique(list), NEW q \in Entries, NEW cap \in Nat,
         q.id \in IdsOf(list), NEW new, new = After(list, q, cap)
  PROVE  /\ new = MoveToFront(list, q.id)
         /\ new \in Seq(Entries) /\ Unique(new) /\ SizeOf(new) = SizeOf(list)
<1>1. new = MoveToFront(list, q.id)
  BY DEF After
<1>2. PICK i \in 1 .. Len(list) : list[i].id = q.id
  BY DEF IdsOf
<1> QED  BY <1>1, <1>2, MovedToFront

(* What an entry of both lists moves to the front of the shorter, it moves *)
(* to the front of the longer.                                             *)
LEMMA BothMove ==
  ASSUME NEW s \in Seq(Entries), NEW t \in Seq(Entries), Unique(s), Unique(t), Starts(s, t),
         NEW i \in 1 .. Len(s)
  PROVE  Starts(MoveToFront(s, s[i].id), MoveToFront(t, s[i].id))
<1>0. Len(s) \in Nat /\ Len(t) \in Nat /\ Len(s) <= Len(t) /\ i \in 1 .. Len(t) /\ t[i] = s[i]
  BY DEF Starts
<1>1. PICK a : a = MoveToFront(s, s[i].id)
  OBVIOUS
<1>2. PICK b : b = MoveToFront(t, t[i].id)
  OBVIOUS
<1>3. Len(a) = Len(s) /\ \A k \in 1 .. Len(s) : a[k] = s[Place(i, k)]
  BY <1>1, MovedToFront
<1>4. Len(b) = Len(t) /\ \A k \in 1 .. Len(t) : b[k] = t[Place(i, k)]
  BY <1>0, <1>2, MovedToFront
<1>5. \A k \in 1 .. Len(s) : Place(i, k) \in 1 .. Len(s) /\ k \in 1 .. Len(t)
  BY <1>0 DEF Place
<1>6. \A k \in 1 .. Len(s) : a[k] = b[k]
  BY <1>3, <1>4, <1>5 DEF Starts
<1>7. Starts(a, b)
  BY <1>0, <1>3, <1>4, <1>6 DEF Starts
<1> QED  BY <1>0, <1>1, <1>2, <1>7

(* A query that meets the lists of both shadow caches one after the other. *)
LEMMA FirstMeets ==
  ASSUME NEW s \in Seq(Entries), NEW t \in Seq(Entries), Unique(s), Unique(t), Starts(s, t),
         NEW q \in Entries, NEW cap \in Nat,
         q.id \in IdsOf(s) \/ q.id \notin IdsOf(t) \/ q \in Range(t),
         NEW new, new = After(s, q, cap)
  PROVE  IF q.id \in IdsOf(t) THEN Starts(new, MoveToFront(t, q.id))
         ELSE q.id \notin IdsOf(s) /\ Starts(new, <<q>> \o t) /\ SizeOf(new) <= cap
<1>0. /\ Len(s) \in Nat /\ Len(t) \in Nat /\ Len(s) <= Len(t)
      /\ \A i \in 1 .. Len(s) : s[i] = t[i] /\ i \in 1 .. Len(t)
      /\ DOMAIN s = 1 .. Len(s) /\ DOMAIN t = 1 .. Len(t)
  BY DEF Starts
<1>1. CASE q.id \in IdsOf(s)
  <2>1. PICK i \in 1 .. Len(s) : s[i].id = q.id
    BY <1>1 DEF IdsOf
  <2>2. q.id \in IdsOf(t)
    BY <1>0, <2>1 DEF IdsOf
  <2>3. Starts(MoveToFront(s, q.id), MoveToFront(t, q.id))
    BY <2>1, BothMove
  <2> QED  BY <1>1, <2>2, <2>3 DEF After
<1>2. CASE q.id \notin IdsOf(s)
  <2>0. PICK pushed : pushed = <<q>> \o s
    OBVIOUS
  <2>1. pushed \in Seq(Entries) /\ Len(pushed) = Len(s) + 1
    BY <2>0, Pushed
  <2>2. pushed[1] = q /\ \A k \in 1 .. Len(s) : pushed[k + 1] = s[k]
    BY <2>0, Pushed
  <2>3. new \in Seq(Entries) /\ Starts(new, pushed) /\ SizeOf(new) <= cap
    BY <1>2, <2>0, AfterMiss
  <2>4. ASSUME NEW k \in 1 .. Len(new)
        PROVE  k \in 1 .. Len(s) + 1 /\ (k = 1 => new[k] = q)
               /\ (k # 1 => k - 1 \in 1 .. Len(s) /\ new[k] = t[k - 1])
    <3>1. k \in 1 .. Len(s) + 1 /\ new[k] = pushed[k] /\ (k # 1 => k - 1 \in 1 .. Len(s) /\ (k - 1) + 1 = k)
      BY <1>0, <2>1, <2>3 DEF Starts
    <3> QED  BY <1>0, <2>2, <3>1
  <2>5. Len(new) \in Nat /\ Len(new) <= Len(s) + 1
    BY <2>1, <2>3 DEF Starts
  <2>6. CASE q.id \in IdsOf(t)
    <3>1. PICK j \in 1 .. Len(t) : t[j] = q
      BY <1>0, <1>2, <2>6 DEF Range
    <3>2. ~(j <= Len(s))
      <4>1. j <= Len(s) => q.id \in IdsOf(s)
        BY <1>0, <3>1 DEF IdsOf
      <4> QED  BY <1>2, <4>1
    <3>3. PICK moved : moved = MoveToFront(t, t[j].id)
      OBVIOUS
    <3>4. Len(moved) = Len(t) /\ \A k \in 1 .. Len(t) : moved[k] = t[Place(j, k)]
      BY <3>3, MovedToFront
    <3>5. ASSUME NEW k \in 1 .. Len(new) PROVE new[k] = moved[k]
      <4>1. k \in 1 .. Len(t) /\ k <= j
        BY <1>0, <2>4, <3>2
      <4>2. moved[k] = t[IF k = 1 THEN j ELSE k - 1]
        BY <3>4, <4>1 DEF Place
      <4> QED  BY <2>4, <3>1, <4>2
    <3>6. Starts(new, moved)
      BY <1>0, <2>5, <3>2, <3>4, <3>5 DEF Starts
    <3> QED  BY <2>6, <3>1, <3>3, <3>6
  <2>7. CASE q.id \notin IdsOf(t)
    <3>0. PICK long : long = <<q>> \o t
      OBVIOUS
    <3>1. Len(long) = Len(t) + 1 /\ long[1] = q /\ \A k \in 1 .. Len(t) : long[k + 1] = t[k]
      BY <3>0, Pushed
    <3>2. ASSUME NEW k \in 1 .. Len(new) PROVE new[k] = long[k]
      <4>1. k # 1 => k - 1 \in 1 .. Len(t) /\ (k - 1) + 1 = k
        BY <1>0, <2>4
      <4> QED  BY <2>4, <3>1, <4>1
    <3>3. Starts(new, long)
      BY <1>0, <2>5, <3>1, <3>2 DEF Starts
    <3> QED  BY <1>2, <2>3, <2>7, <3>0, <3>3
  <2> QED  BY <2>6, <2>7
<1> QED  BY <1>1, <1>2

LEMMA SecondMeets ==
  ASSUME NEW s \in Seq(Entries), NEW t \in Seq(Entries), Unique(t),
         NEW q \in Entries, NEW cap \in Nat, NEW met \in Nat, met <= cap,
         IF q.id \in IdsOf(t) THEN Starts(s, MoveToFront(t, q.id))
         ELSE Starts(s, <<q>> \o t) /\ SizeOf(s) <= met
  PROVE  Starts(s, After(t, q, cap))
<1>1. CASE q.id \in IdsOf(t)
  BY <1>1 DEF After
<1>2. CASE q.id \notin IdsOf(t)
  <2>1. SizeOf(s) \in Int
    BY SizeOfConcat
  <2>2. SizeOf(s) <= cap /\ Starts(s, <<q>> \o t)
    BY <1>2, <2>1
  <2>3. PICK new : new = After(t, q, cap)
    OBVIOUS
  <2> QED  BY <1>2, <2>2, <2>3, AfterMiss
<1> QED  BY <1>1, <1>2
-----------------------------------------------------------------------------
HitsCounted == \A c \in Shadow : hits[c] <= reqs[c]

(* What Shadow1 holds once it has met a query is the first part of what    *)
(* Shadow2 is going to hold, if that has room for as much.                 *)
Ahead(s, t, q, hit, cap) ==
  IF q.id \in IdsOf(t)
    THEN Starts(s, MoveToFront(t, q.id))
    ELSE ~hit /\ Starts(s, <<q>> \o t) /\ SizeOf(s) <= cap

(* The lists between two queries, and while Shadow2 has still to meet one. *)
Nested ==
  ~crossed /\ ~resized =>
    /\ query = NoQuery => Starts(evictList[1], evictList[2])
    /\ query # NoQuery => Ahead(evictList[1], evictList[2], query, hitFirst, capFirst)

IInv == TypeOK /\ HitsCounted /\ SizeIsSum /\ Nested

LEMMA QueryIsEntry == query \in Entries \cup {NoQuery} => (query # NoQuery <=> query \in Entries)
BY NoQueryAssumption DEF Entries, NoQuery

LEMMA Typed ==
  ASSUME TypeOK, SizeIsSum, NEW c \in Shadow
  PROVE  evictList[c] \in Seq(Entries) /\ Unique(evictList[c]) /\ size[c] = SizeOf(evictList[c])
         /\ capacity[c] \in Nat
BY DEF TypeOK, SizeIsSum, Unique

LEMMA InitIInv == Init => IInv
<1> SUFFICES ASSUME Init PROVE IInv
  OBVIOUS
<1>1. PICK e \in Extras : capacity = [c \in Shadow |-> IF c = 1 THEN InitCap ELSE InitCap + e]
  BY DEF Init
<1>2. InitCap \in Nat /\ e \in Nat
  BY CapAssumption
<1>3. capacity \in [Shadow -> Nat]
  BY <1>1, <1>2
<1>4. evictList \in [Shadow -> Seq(Entries)] /\ \A c \in Shadow : evictList[c] = <<>>
  BY DEF Init
<1>5. TypeOK
  <2>1. 0 \in 0 .. MaxReqs /\ NotSetting = -1
    BY BoundAssumption DEF NotSetting
  <2>2. size \in [Shadow -> Int] /\ hits \in [Shadow -> 0 .. MaxReqs] /\ reqs \in [Shadow -> 0 .. MaxReqs]
    BY <2>1 DEF Init
  <2>3. ratio \in [hits : 0 .. MaxReqs, reqs : 0 .. MaxReqs]
    BY <2>1 DEF Init, NoRatio
  <2> QED  BY <1>3, <1>4, <2>2, <2>3 DEF Init, TypeOK
<1>6. SizeIsSum
  BY <1>4, SizeOfEmpty DEF Init, SizeIsSum
<1>7. HitsCounted
  BY DEF Init, HitsCounted
<1>8. Nested
  <2>1. evictList[1] = <<>> /\ evictList[2] = <<>> /\ query = NoQuery
    BY <1>4 DEF Init, Shadow
  <2>2. Starts(<<>>, <<>>)
    BY DEF Starts
  <2> QED  BY <2>1, <2>2 DEF Nested
<1> QED  BY <1>5, <1>6, <1>7, <1>8 DEF IInv

(* A request changes the list of one cache and the size with it. *)
LEMMA RequestEffect ==
  ASSUME IInv, NEW c \in Shadow, NEW q \in Entries, Request(c, q),
         NEW new, new = After(evictList[c], q, capacity[c])
  PROVE  /\ new \in Seq(Entries) /\ Unique(new)
         /\ evictList' = [evictList EXCEPT ![c] = new]
         /\ size' = [size EXCEPT ![c] = SizeOf(new)] /\ SizeOf(new) \in Int
         /\ hits' \in [Shadow -> 0 .. MaxReqs] /\ reqs' \in [Shadow -> 0 .. MaxReqs]
         /\ \A d \in Shadow : hits'[d] <= reqs'[d]
<1> DEFINE list == evictList[c]
<1>1. list \in Seq(Entries) /\ Unique(list) /\ size[c] = SizeOf(list) /\ capacity[c] \in Nat
  BY Typed DEF IInv
<1>2. /\ size \in [Shadow -> Int] /\ hits \in [Shadow -> 0 .. MaxReqs]
      /\ reqs \in [Shadow -> 0 .. MaxReqs] /\ MaxReqs \in Nat
      /\ \A d \in Shadow : hits[d] <= reqs[d]
  BY BoundAssumption DEF IInv, TypeOK, HitsCounted
<1>3. reqs[c] < MaxReqs /\ reqs' = [reqs EXCEPT ![c] = @ + 1]
  BY DEF Request
<1>4. CASE q.id \in IdsOf(list)
  <2>1. evictList' = [evictList EXCEPT ![c] = MoveToFront(@, q.id)]
        /\ hits' = [hits EXCEPT ![c] = @ + 1] /\ size' = size
    BY <1>4 DEF Request
  <2>2. new = MoveToFront(list, q.id) /\ new \in Seq(Entries) /\ Unique(new)
        /\ SizeOf(new) = SizeOf(list)
    BY <1>1, <1>4, AfterHit
  <2>3. size' = [size EXCEPT ![c] = SizeOf(new)] /\ SizeOf(new) \in Int
    BY <1>1, <1>2, <2>1, <2>2
  <2>4. /\ hits' \in [Shadow -> 0 .. MaxReqs] /\ reqs' \in [Shadow -> 0 .. MaxReqs]
        /\ \A d \in Shadow : hits'[d] <= reqs'[d]
    BY <1>2, <1>3, <2>1
  <2>5. evictList' = [evictList EXCEPT ![c] = new]
    BY <2>1, <2>2
  <2> QED  BY <2>2, <2>3, <2>4, <2>5
<1>5. CASE q.id \notin IdsOf(list)
  <2>0. PICK pushed : pushed = <<q>> \o list
    OBVIOUS
  <2>1. PICK n : n = Kept(pushed, size[c] + q.size, capacity[c])
    OBVIOUS
  <2>2. /\ evictList' = [evictList EXCEPT ![c] = SubSeq(pushed, 1, n)]
        /\ size' = [size EXCEPT ![c] = @ + q.size - SizeOf(SubSeq(pushed, n + 1, Len(pushed)))]
        /\ hits' = hits
    BY <1>5, <2>0, <2>1 DEF Request
  <2>3. new \in Seq(Entries) /\ Unique(new)
    BY <1>1, <1>5, <2>0, AfterMiss
  <2>4. /\ new = SubSeq(pushed, 1, n)
        /\ SizeOf(new) = SizeOf(list) + q.size - SizeOf(SubSeq(pushed, n + 1, Len(pushed)))
    <3>1. PICK old : old = list
      OBVIOUS
    <3>2. /\ old \in Seq(Entries) /\ Unique(old) /\ q.id \notin IdsOf(old)
          /\ pushed = <<q>> \o old /\ new = After(old, q, capacity[c])
      BY <1>1, <1>5, <2>0, <3>1
    <3>3. PICK cap \in Nat : cap = capacity[c]
      BY <1>1
    <3>4. new = After(old, q, cap) /\ n = Kept(pushed, SizeOf(old) + q.size, cap)
      BY <1>1, <2>1, <3>1, <3>2, <3>3
    <3>5. \A k : k = Kept(pushed, SizeOf(old) + q.size, cap) =>
            Leaves(old, q, k, new)
      BY <3>2, <3>4, AfterMiss
    <3>6. /\ new = SubSeq(pushed, 1, n)
          /\ SizeOf(new) = SizeOf(old) + q.size - SizeOf(SubSeq(pushed, n + 1, Len(pushed)))
      <4>1. Leaves(old, q, n, new)
        BY <3>4, <3>5
      <4> QED  BY <3>2, <4>1, Zenon DEF Leaves
    <3> QED  BY <3>1, <3>6
  <2>5. SizeOf(new) \in Int
    BY <2>3, SizeOfConcat
  <2>6. size' = [size EXCEPT ![c] = SizeOf(new)]
    BY <1>1, <2>2, <2>4
  <2>7. /\ hits' \in [Shadow -> 0 .. MaxReqs] /\ reqs' \in [Shadow -> 0 .. MaxReqs]
        /\ \A d \in Shadow : hits'[d] <= reqs'[d]
    BY <1>2, <1>3, <2>2
  <2> QED  BY <2>2, <2>3, <2>4, <2>5, <2>6, <2>7
<1> QED  BY <1>4, <1>5

(* Whatever a request leaves is as IInv wants it, but for the nesting. *)
LEMMA RequestKeeps ==
  ASSUME IInv, NEW c \in Shadow, NEW q \in Entries, Request(c, q)
  PROVE  /\ evictList' \in [Shadow -> Seq(Entries)] /\ size' \in [Shadow -> Int]
         /\ hits' \in [Shadow -> 0 .. MaxReqs] /\ reqs' \in [Shadow -> 0 .. MaxReqs]
         /\ HitsCounted' /\ SizeIsSum'
<1>1. PICK new : new = After(evictList[c], q, capacity[c])
  OBVIOUS
<1>2. /\ new \in Seq(Entries) /\ Unique(new)
      /\ evictList' = [evictList EXCEPT ![c] = new]
      /\ size' = [size EXCEPT ![c] = SizeOf(new)] /\ SizeOf(new) \in Int
      /\ hits' \in [Shadow -> 0 .. MaxReqs] /\ reqs' \in [Shadow -> 0 .. MaxReqs]
      /\ \A d \in Shadow : hits'[d] <= reqs'[d]
  BY <1>1, RequestEffect
<1>3. evictList \in [Shadow -> Seq(Entries)] /\ size \in [Shadow -> Int]
  BY DEF IInv, TypeOK
<1>4. evictList' \in [Shadow -> Seq(Entries)] /\ size' \in [Shadow -> Int]
  BY <1>2, <1>3
<1>5. \A d \in Shadow : size'[d] = SizeOf(evictList'[d]) /\ Unique(evictList'[d])
  BY <1>2, <1>3, Typed DEF IInv
<1>6. SizeIsSum'
  BY <1>5 DEF SizeIsSum, SizeOf, Unique
<1> QED  BY <1>2, <1>4, <1>6 DEF HitsCounted

LEMMA PlayFirstStep ==
  ASSUME IInv, NEW q \in Entries, PlayFirst(q)
  PROVE  IInv'
<1>0. TypeOK /\ SizeIsSum /\ Nested /\ 1 \in Shadow /\ 2 \in Shadow
  BY DEF IInv, Shadow
<1>1. query = NoQuery /\ Request(1, q) /\ query' = q /\ capacity' = capacity
  BY DEF PlayFirst
<1>2. HitsCounted' /\ SizeIsSum' /\ evictList' \in [Shadow -> Seq(Entries)] /\ size' \in [Shadow -> Int]
      /\ hits' \in [Shadow -> 0 .. MaxReqs] /\ reqs' \in [Shadow -> 0 .. MaxReqs]
  BY <1>0, <1>1, RequestKeeps
<1>3. TypeOK'
  <2>1. hitFirst' \in BOOLEAN /\ resized' \in BOOLEAN
    BY DEF PlayFirst
  <2>2. capFirst' \in Nat /\ query' \in Entries
    BY <1>0 DEF PlayFirst, TypeOK
  <2>3. UNCHANGED <<capacity, crossed, newCap, reportVars>>
    BY DEF PlayFirst
  <2> QED  BY <1>0, <1>2, <2>1, <2>2, <2>3 DEF TypeOK, reportVars
<1>4. Nested'
  <2> SUFFICES ASSUME ~crossed', ~resized' PROVE Nested'
    BY DEF Nested
  <2> DEFINE s == evictList[1]
             t == evictList[2]
  <2>1. /\ s \in Seq(Entries) /\ Unique(s) /\ t \in Seq(Entries) /\ Unique(t)
        /\ capacity[1] \in Nat /\ Starts(s, t)
    <3>1. ~crossed /\ ~resized
      BY DEF PlayFirst
    <3> QED  BY <1>0, <1>1, <3>1, Typed DEF Nested
  <2>2. PICK new : new = After(s, q, capacity[1])
    OBVIOUS
  <2>3. evictList' = [evictList EXCEPT ![1] = new]
    BY <1>0, <1>1, <2>2, RequestEffect
  <2>4. evictList'[1] = new /\ evictList'[2] = t
    <3>1. evictList \in [Shadow -> Seq(Entries)]
      BY <1>0 DEF TypeOK
    <3> QED  BY <1>0, <2>3, <3>1
  <2>5. q.id \in IdsOf(s) \/ q.id \notin IdsOf(t) \/ q \in Range(t)
    BY DEF PlayFirst
  <2>6. hitFirst' = (q.id \in IdsOf(s)) /\ capFirst' = capacity[1]
    BY DEF PlayFirst
  <2> HIDE DEF s, t
  <2>7. IF q.id \in IdsOf(t) THEN Starts(new, MoveToFront(t, q.id))
        ELSE q.id \notin IdsOf(s) /\ Starts(new, <<q>> \o t) /\ SizeOf(new) <= capacity[1]
    BY <2>1, <2>2, <2>5, FirstMeets
  <2>8. q # NoQuery
    BY NoQueryAssumption DEF Entries
  <2>9. Ahead(new, t, q, hitFirst', capFirst')
    <3>1. q.id \notin IdsOf(s) => ~hitFirst'
      BY <2>6
    <3>2. PICK hit, cap : hit = hitFirst' /\ cap = capFirst'
      OBVIOUS
    <3>3. Ahead(new, t, q, hit, cap)
      BY <2>6, <2>7, <3>1, <3>2 DEF Ahead
    <3> QED  BY <3>2, <3>3
  <2>10. query' = q
    BY DEF PlayFirst
  <2>11. query' # NoQuery
    BY <2>8, <2>10
  <2>12. Ahead(evictList'[1], evictList'[2], query', hitFirst', capFirst')
    BY <2>4, <2>9, <2>10
  <2> QED  BY <2>11, <2>12 DEF Nested
<1> QED  BY <1>2, <1>3, <1>4 DEF IInv

LEMMA PlaySecondStep ==
  ASSUME IInv, PlaySecond
  PROVE  IInv'
<1>0. TypeOK /\ SizeIsSum /\ Nested /\ 1 \in Shadow /\ 2 \in Shadow
  BY DEF IInv, Shadow
<1>1. query \in Entries /\ query # NoQuery /\ Request(2, query) /\ query' = NoQuery
  BY <1>0, QueryIsEntry DEF PlaySecond, TypeOK
<1>2. HitsCounted' /\ SizeIsSum' /\ evictList' \in [Shadow -> Seq(Entries)] /\ size' \in [Shadow -> Int]
      /\ hits' \in [Shadow -> 0 .. MaxReqs] /\ reqs' \in [Shadow -> 0 .. MaxReqs]
  BY <1>0, <1>1, RequestKeeps
<1>3. TypeOK'
  BY <1>0, <1>2 DEF TypeOK, PlaySecond, reportVars
<1>4. Nested'
  <2> SUFFICES ASSUME ~crossed', ~resized' PROVE Starts(evictList'[1], evictList'[2])
    BY <1>1 DEF Nested, Starts
  <2> DEFINE s == evictList[1]
             t == evictList[2]
  <2>1. /\ s \in Seq(Entries) /\ t \in Seq(Entries) /\ Unique(t)
        /\ capacity[2] \in Nat /\ capFirst \in Nat
    BY <1>0, Typed DEF TypeOK
  <2>2. ~crossed /\ ~resized /\ capFirst <= capacity[2]
    <3>1. ~crossed /\ ~(capFirst > capacity[2]) /\ ~resized
      BY Zenon DEF PlaySecond
    <3> QED  BY <2>1, <3>1
  <2>3. IF query.id \in IdsOf(t) THEN Starts(s, MoveToFront(t, query.id))
        ELSE Starts(s, <<query>> \o t) /\ SizeOf(s) <= capFirst
    BY <1>0, <1>1, <2>2 DEF Nested, Ahead
  <2>4. PICK new : new = After(t, query, capacity[2])
    OBVIOUS
  <2>5. evictList' = [evictList EXCEPT ![2] = new]
    BY <1>0, <1>1, <2>4, RequestEffect
  <2>6. evictList'[1] = s /\ evictList'[2] = new
    <3>1. evictList \in [Shadow -> Seq(Entries)]
      BY <1>0 DEF TypeOK
    <3> QED  BY <1>0, <2>5, <3>1
  <2> HIDE DEF s, t
  <2>7. Starts(s, new)
    BY <1>1, <2>1, <2>2, <2>3, <2>4, SecondMeets
  <2> QED  BY <2>6, <2>7
<1> QED  BY <1>2, <1>3, <1>4 DEF IInv

(* The other steps leave the lists alone. *)
LEMMA SameLists ==
  ASSUME IInv, UNCHANGED <<evictList, size, queryVars>>, TypeOK', HitsCounted'
  PROVE  IInv'
<1>1. SizeIsSum'
  BY DEF IInv, SizeIsSum, SizeOf
<1>2. Nested'
  BY DEF IInv, Nested, queryVars
<1> QED  BY <1>1, <1>2 DEF IInv

LEMMA InvariantStep == IInv /\ [Next]_vars => IInv'
<1> SUFFICES ASSUME IInv, [Next]_vars PROVE IInv'
  OBVIOUS
<1>0. TypeOK /\ HitsCounted /\ MaxReqs \in Nat
  BY BoundAssumption DEF IInv
<1>1. CASE \E q \in Entries : PlayFirst(q)
  BY <1>1, PlayFirstStep
<1>2. CASE PlaySecond
  BY <1>2, PlaySecondStep
<1>3. CASE SetFirst
  <2>1. PICK c \in Capacities, e \in Extras :
          capacity' = [capacity EXCEPT ![1] = c] /\ newCap' = c + e
    BY <1>3 DEF SetFirst
  <2>2. c \in Nat /\ c + e \in Nat
    BY CapAssumption
  <2>3. TypeOK'
    BY <1>0, <1>3, <2>1, <2>2 DEF TypeOK, SetFirst, cacheVars, queryVars, reportVars
  <2>4. HitsCounted' /\ UNCHANGED <<evictList, size, queryVars>>
    BY <1>0, <1>3 DEF HitsCounted, SetFirst, cacheVars
  <2> QED  BY <2>3, <2>4, SameLists
<1>4. CASE SetSecond
  <2>1. TypeOK'
    BY <1>0, <1>4 DEF TypeOK, SetSecond, NotSetting, cacheVars, queryVars, reportVars
  <2>2. HitsCounted' /\ UNCHANGED <<evictList, size, queryVars>>
    BY <1>0, <1>4 DEF HitsCounted, SetSecond, cacheVars
  <2> QED  BY <2>1, <2>2, SameLists
<1>5. ASSUME NEW c \in Shadow, Reset(c)
      PROVE  /\ hits' \in [Shadow -> 0 .. MaxReqs] /\ reqs' \in [Shadow -> 0 .. MaxReqs]
             /\ HitsCounted'
  <2>1. hits \in [Shadow -> 0 .. MaxReqs] /\ reqs \in [Shadow -> 0 .. MaxReqs] /\ hits[c] <= reqs[c]
    BY <1>0 DEF TypeOK, HitsCounted
  <2>2. 0 \in 0 .. MaxReqs
    BY <1>0
  <2>3. hits' \in [Shadow -> 0 .. MaxReqs] /\ reqs' \in [Shadow -> 0 .. MaxReqs]
    BY <1>5, <2>1, <2>2 DEF Reset
  <2>4. hits'[c] = 0 /\ reqs'[c] = 0
    BY <1>0, <1>5, <2>1 DEF Reset
  <2>5. \A d \in Shadow : d # c => hits'[d] = hits[d] /\ reqs'[d] = reqs[d]
    BY <1>5, <2>1 DEF Reset
  <2> QED  BY <1>0, <2>3, <2>4, <2>5 DEF HitsCounted
<1>6. CASE ReadFirst
  <2>1. 1 \in Shadow /\ Reset(1)
    BY <1>6 DEF ReadFirst, Shadow
  <2>2. ratio' \in [hits : 0 .. MaxReqs, reqs : 0 .. MaxReqs]
    BY <1>0, <1>6, <2>1 DEF ReadFirst, TypeOK
  <2>3. TypeOK' /\ HitsCounted'
    BY <1>0, <1>5, <1>6, <2>1, <2>2 DEF TypeOK, ReadFirst, queryVars
  <2> QED  BY <1>6, <2>3, SameLists DEF ReadFirst
<1>7. CASE ReadSecond
  <2>1. 2 \in Shadow /\ Reset(2)
    BY <1>7 DEF ReadSecond, Shadow
  <2>2. ratio' \in [hits : 0 .. MaxReqs, reqs : 0 .. MaxReqs]
        /\ report' \in {"idle", "second", "lower", "shadow error"}
    BY <1>0, <1>7 DEF ReadSecond, NoRatio
  <2>3. TypeOK' /\ HitsCounted'
    BY <1>0, <1>5, <1>7, <2>1, <2>2 DEF TypeOK, ReadSecond, queryVars
  <2> QED  BY <1>7, <2>3, SameLists DEF ReadSecond
<1>8. CASE Compare \/ GoOn \/ UNCHANGED vars
  <2>1. TypeOK'
    BY <1>0, <1>8 DEF TypeOK, Compare, GoOn, vars, cacheVars, queryVars, reportVars
  <2>2. HitsCounted' /\ UNCHANGED <<evictList, size, queryVars>>
    BY <1>0, <1>8 DEF HitsCounted, Compare, GoOn, vars, cacheVars
  <2> QED  BY <2>1, <2>2, SameLists
<1> QED  BY <1>1, <1>2, <1>3, <1>4, <1>6, <1>7, <1>8 DEF Next
-----------------------------------------------------------------------------
(* IInv holds in every reachable state of the shadow caches. *)
THEOREM Invariant == Safety => []IInv
<1>1. Init => IInv
  BY InitIInv
<1> QED  BY <1>1, InvariantStep, PTL DEF Safety

(* The variables keep their types. *)
THEOREM TypeCorrect == Safety => []TypeOK
<1>1. IInv => TypeOK
  BY DEF IInv
<1> QED  BY <1>1, Invariant, PTL

(* The size is that of the entries, whatever sizes they have and however   *)
(* the capacities change.                                                  *)
THEOREM SizesAreSums == Safety => []SizeIsSum
<1>1. IInv => SizeIsSum
  BY DEF IInv
<1> QED  BY <1>1, Invariant, PTL

(* Shadow1 holds the most recent items of Shadow2, for any number of items *)
(* and any capacities.                                                     *)
THEOREM Included == Safety => []Inclusion
<1>1. ASSUME IInv PROVE Inclusion
  <2> SUFFICES ASSUME ~crossed, ~resized
               PROVE  /\ query = NoQuery => IsPrefix(evictList[1], evictList[2])
                      /\ query # NoQuery /\ hitFirst => query.id \in IdsOf(evictList[2])
    BY DEF Inclusion
  <2>1. TypeOK /\ Nested
    BY <1>1 DEF IInv
  <2>2. evictList[1] \in Seq(Entries) /\ evictList[2] \in Seq(Entries)
    BY <2>1 DEF TypeOK, Shadow
  <2>3. IsPrefix(evictList[1], evictList[2]) <=> Starts(evictList[1], evictList[2])
    BY <2>2, PrefixStarts
  <2>4. query # NoQuery /\ hitFirst => query.id \in IdsOf(evictList[2])
    BY <2>1 DEF Nested, Ahead
  <2>5. query = NoQuery => Starts(evictList[1], evictList[2])
    BY <2>1 DEF Nested
  <2> QED  BY <2>3, <2>4, <2>5
<1> QED  BY <1>1, Invariant, PTL
=============================================================================

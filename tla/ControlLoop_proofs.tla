------------------------- MODULE ControlLoop_proofs -------------------------
(***************************************************************************)
(* Proofs about how the limits reach the shadow caches, for any number of  *)
(* controllers, application servers, changes, cut-off posts and restarts   *)
(* and any room in the arrays: that the variables keep their types, and    *)
(* that an answer encoded without the lock is whole although the copies    *)
(* that follow write into its array.                                       *)
(***************************************************************************)
EXTENDS ControlLoop, SumTheorems, SequenceTheorems, TLAPS

(* What an array of the table is, and an answer. *)
Arrays == {<<>>} \cup [1 .. Cap -> Items \cup {Empty}]

Answers == [array : SUBSET Controllers, len : Nat, items : Seq(Items)]

LEMMA EmptyIsNoItem == Empty \notin Items
BY NobodyAssumption DEF Items, Empty

(* Every number up to the size of a set of numbers is the rank of one.     *)
LEMMA Rank ==
  ASSUME NEW m \in Nat, NEW S \in SUBSET (1 .. m)
  PROVE  /\ IsFiniteSet(S) /\ Cardinality(S) \in Nat
         /\ \A n \in 1 .. Cardinality(S) : \E k \in S : Cardinality({j \in S : j <= k}) = n
<1> DEFINE Ranked(T) == \A n \in 1 .. Cardinality(T) : \E k \in T : Cardinality({j \in T : j <= k}) = n
           G == {l \in Nat : \A T \in SUBSET (1 .. l) : Ranked(T)}
<1>1. ASSUME NEW l \in Nat, NEW T \in SUBSET (1 .. l)
      PROVE  IsFiniteSet(T) /\ Cardinality(T) \in Nat
  <2>1. IsFiniteSet(1 .. l)
    BY FS_Interval
  <2> QED  BY <2>1, FS_Subset, FS_CardinalityType
<1>2. 0 \in G
  <2> SUFFICES ASSUME NEW T \in SUBSET (1 .. 0) PROVE Ranked(T)
    OBVIOUS
  <2>1. T = {}
    OBVIOUS
  <2> QED  BY <2>1, FS_EmptySet
<1>3. ASSUME NEW l \in Nat, l \in G PROVE l + 1 \in G
  <2> SUFFICES ASSUME NEW T \in SUBSET (1 .. l + 1) PROVE Ranked(T)
    OBVIOUS
  <2>1. CASE l + 1 \notin T
    <3>1. T \in SUBSET (1 .. l)
      BY <2>1
    <3> QED  BY <1>3, <3>1
  <2>2. CASE l + 1 \in T
    <3> DEFINE U == T \ {l + 1}
    <3>1. U \in SUBSET (1 .. l) /\ T \subseteq 1 .. l + 1
      OBVIOUS
    <3>2. Cardinality(U) \in Nat /\ Cardinality(T) = Cardinality(U) + 1
      <4>1. IsFiniteSet(U) /\ Cardinality(U) \in Nat
        BY <1>1, <1>3, <3>1
      <4>2. T = U \cup {l + 1} /\ l + 1 \notin U
        BY <2>2
      <4> HIDE DEF U
      <4> QED  BY <4>1, <4>2, FS_AddElement
    <3> SUFFICES ASSUME NEW n \in 1 .. Cardinality(T)
                 PROVE  \E k \in T : Cardinality({j \in T : j <= k}) = n
      OBVIOUS
    <3>3. CASE n = Cardinality(T)
      <4>0. \A j \in T : j <= l + 1
        BY <1>3, <3>1
      <4>1. {j \in T : j <= l + 1} = T
        BY <4>0
      <4> QED  BY <2>2, <3>3, <4>1
    <3>4. CASE n # Cardinality(T)
      <4>1. n \in 1 .. Cardinality(U)
        BY <3>2, <3>4
      <4>2. PICK k \in U : Cardinality({j \in U : j <= k}) = n
        <5>1. Ranked(U)
          BY <1>3, <3>1
        <5> QED  BY <4>1, <5>1
      <4>3. k \in T /\ {j \in U : j <= k} = {j \in T : j <= k}
        BY <3>1
      <4> QED  BY <4>2, <4>3
    <3> QED  BY <3>3, <3>4
  <2> QED  BY <2>1, <2>2
<1>4. m \in G
  <2> HIDE DEF G
  <2> QED  BY <1>2, <1>3, NatInductionOnSet
<1> QED  BY <1>1, <1>4

(* In an interval the rank of a number is the number. *)
LEMMA RankInInterval ==
  ASSUME NEW m \in Nat, NEW k \in 1 .. m
  PROVE  Cardinality({j \in 1 .. m : j <= k}) = k
<1>1. {j \in 1 .. m : j <= k} = 1 .. k
  OBVIOUS
<1>2. Cardinality(1 .. k) = k - 1 + 1
  <2>1. k \in Int /\ ~(1 > k) /\ 1 \in Int
    OBVIOUS
  <2> QED  BY <2>1, FS_Interval
<1>3. k - 1 + 1 = k
  OBVIOUS
<1> QED  BY <1>1, <1>2, <1>3, Zenon

(* What CopyMemStat collects. *)
LEMMA EntriesAre ==
  ASSUME TypeOK
  PROVE  /\ Entries \in Seq(Controllers) /\ All \in Seq(Items)
         /\ Len(All) = Len(Entries) /\ Len(Entries) \in Nat
         /\ \A n \in 1 .. Len(Entries) :
              CurMemLimits[Entries[n]] # <<>> /\ All[n] = CurMemLimits[Entries[n]][1]
         /\ (\A k \in DOMAIN CurMemLimitOrder : CurMemLimits[CurMemLimitOrder[k]] # <<>>)
              => Entries = CurMemLimitOrder
<1> DEFINE order == CurMemLimitOrder
           N == Cardinality(Known)
<1>1. order \in Seq(Controllers) /\ Len(order) \in Nat /\ DOMAIN order = 1 .. Len(order)
  BY DEF TypeOK
<1>2. Known \in SUBSET (1 .. Len(order)) /\ \A k \in Known : CurMemLimits[order[k]] # <<>>
  BY <1>1 DEF Known
<1>3. N \in Nat /\ \A n \in 1 .. N : \E k \in Known : Cardinality({j \in Known : j <= k}) = n
  BY <1>1, <1>2, Rank
<1>4. \A n \in 1 .. N : Nth(n) \in Known /\ Cardinality({j \in Known : j <= Nth(n)}) = n
  BY <1>3 DEF Nth
<1> HIDE DEF N
<1>5. Entries = [n \in 1 .. N |-> order[Nth(n)]]
  BY DEF Entries, N
<1>6. \A n \in 1 .. N : order[Nth(n)] \in Controllers /\ CurMemLimits[order[Nth(n)]] # <<>>
  <2> SUFFICES ASSUME NEW n \in 1 .. N
               PROVE  order[Nth(n)] \in Controllers /\ CurMemLimits[order[Nth(n)]] # <<>>
    OBVIOUS
  <2>1. PICK k \in Known : k = Nth(n)
    BY <1>4
  <2> HIDE DEF order
  <2>2. order[k] \in Controllers /\ CurMemLimits[order[k]] # <<>>
    BY <1>1, <1>2
  <2> QED  BY <2>1, <2>2
<1>7. Entries \in Seq(Controllers) /\ Len(Entries) = N /\ DOMAIN Entries = 1 .. N
  BY <1>3, <1>5, <1>6
<1>8. \A n \in 1 .. N : Entries[n] = order[Nth(n)]
  BY <1>5
<1>9. \A n \in 1 .. N : CurMemLimits[Entries[n]][1] \in Items
  BY <1>6, <1>8 DEF TypeOK
<1>10. All = [n \in 1 .. N |-> CurMemLimits[Entries[n]][1]]
  BY <1>7 DEF All
<1>11. All \in Seq(Items) /\ Len(All) = N
  BY <1>3, <1>9, <1>10
<1>12. ASSUME \A k \in DOMAIN order : CurMemLimits[order[k]] # <<>>
       PROVE  Entries = order
  <2>1. Known = 1 .. Len(order)
    BY <1>1, <1>12 DEF Known
  <2>2. N = Len(order)
    BY <1>1, <2>1, FS_Interval DEF N
  <2>3. \A n \in 1 .. N : Nth(n) = n
    BY <1>1, <1>4, <2>1, RankInInterval
  <2> QED  BY <1>1, <1>5, <2>2, <2>3
<1> QED  BY <1>3, <1>6, <1>7, <1>8, <1>10, <1>11, <1>12

(* What CopyMemStat writes into the arrays of the table. *)
LEMMA AppendedIs ==
  ASSUME TypeOK
  PROVE  /\ Appended \in [Controllers -> Arrays]
         /\ \A c \in Controllers :
              /\ Appended[c] # <<>> <=> CurMemLimits[c] # <<>>
              /\ CurMemLimits[c] # <<>> =>
                   /\ Appended[c][1] = CurMemLimits[c][1]
                   /\ \A k \in 1 .. Cap :
                        Appended[c][k] = IF Entries # <<>> /\ c = Entries[1] /\ k \in 1 .. Len(All)
                                           THEN All[k] ELSE CurMemLimits[c][k]
<1>0. CurMemLimits \in [Controllers -> Arrays] /\ Cap \in Nat /\ 1 \in 1 .. Cap
  BY CapAssumption DEF TypeOK, Arrays
<1>1. CASE Entries = <<>>
  BY <1>0, <1>1 DEF Appended
<1>2. CASE Entries # <<>>
  <2> DEFINE first == Entries[1]
             new == [k \in 1 .. Cap |-> IF k \in DOMAIN All THEN All[k] ELSE CurMemLimits[first][k]]
  <2>1. /\ first \in Controllers /\ CurMemLimits[first] # <<>> /\ 1 \in 1 .. Len(All)
        /\ All[1] = CurMemLimits[first][1]
        /\ DOMAIN All = 1 .. Len(All) /\ \A k \in 1 .. Len(All) : All[k] \in Items
    <3>1. Len(Entries) # 0
      BY <1>2, EntriesAre
    <3> QED  BY <3>1, EntriesAre
  <2>2. CurMemLimits[first] \in [1 .. Cap -> Items \cup {Empty}]
    BY <1>0, <2>1 DEF Arrays
  <2>3. Appended = [CurMemLimits EXCEPT ![first] = new]
    BY <1>2 DEF Appended
  <2> HIDE DEF first
  <2>4. new \in [1 .. Cap -> Items \cup {Empty}]
    BY <2>1, <2>2
  <2>5. new # <<>> /\ new[1] = CurMemLimits[first][1]
    BY <1>0, <2>1
  <2>6. \A k \in 1 .. Cap : new[k] = IF k \in 1 .. Len(All) THEN All[k] ELSE CurMemLimits[first][k]
    BY <2>1
  <2> HIDE DEF new
  <2>7. Appended \in [Controllers -> Arrays]
    BY <1>0, <2>1, <2>3, <2>4 DEF Arrays
  <2>8. ASSUME NEW c \in Controllers
        PROVE  Appended[c] = IF c = first THEN new ELSE CurMemLimits[c]
    BY <1>0, <2>1, <2>3
  <2> QED  BY <1>2, <2>1, <2>5, <2>6, <2>7, <2>8 DEF first
<1> QED  BY <1>1, <1>2
-----------------------------------------------------------------------------
(* The parts of the invariant, of a table and its order, and of an answer, *)
(* what of it is encoded, and what it is to have.                          *)
ItemOf(tab, a, k) == IF a.array = {} THEN a.items[k] ELSE tab[CHOOSE c \in a.array : TRUE][k]

Sound(tab, a) ==
  /\ a.array = {} => a.len = Len(a.items)
  /\ a.array # {} =>
       \E c \in Controllers : /\ a.array = {c} /\ tab[c] # <<>> /\ a.len <= Cap
                              /\ \A k \in 1 .. a.len : tab[c][k] \in Items

InOrder(tab, order) ==
  /\ \A k \in 1 .. Len(order) : tab[order[k]] # <<>>
  /\ order # <<>> => \A k \in 1 .. Cap :
       tab[order[1]][k] # Empty =>
         /\ k <= Len(order) /\ tab[order[1]][k].of = order[k]
         /\ tab[order[1]][k].limit <= tab[order[k]][1].limit

Promised(tab, order, a, encoded, items) ==
  /\ a.len <= Len(order)
  /\ a.array # {} => order # <<>> /\ a.array = {order[1]}
  /\ \A k \in 1 .. a.len : ItemOf(tab, a, k).of = order[k]
  /\ \A k \in 1 .. Len(encoded) : encoded[k].of = order[k]
  /\ \A item \in items : \E k \in 1 .. a.len :
       /\ item.of = order[k] /\ item.limit <= ItemOf(tab, a, k).limit
       /\ k <= Len(encoded) => item.limit <= encoded[k].limit

TableOK ==
  /\ CurMemLimitOrder \in Seq(Controllers) /\ IsInjective(CurMemLimitOrder)
  /\ CurMemLimits \in [Controllers -> Arrays]
  /\ \A c \in Controllers : CurMemLimits[c] # <<>> =>
       c \in Registered /\ CurMemLimits[c][1] \in Items /\ CurMemLimits[c][1].of = c

PostsOK ==
  /\ pc \in [Servers -> {"measure", "encode"}]
  /\ answer \in [Servers -> Answers]
  /\ out \in [Servers -> Seq(Items)]
  /\ floor \in [Servers -> SUBSET Items]
  /\ basis \in [Servers -> Seq(Items)]

AnswersSound ==
  \A s \in Servers : /\ Sound(CurMemLimits, answer[s]) /\ Len(out[s]) <= answer[s].len
                     /\ pc[s] = "measure" => out[s] = <<>>

NotAhead ==
  \A c \in Controllers : CurMemLimits[c] # <<>> => CurMemLimits[c][1].limit <= limit[c]

Uncut ==
  cuts = 0 =>
    /\ InOrder(CurMemLimits, CurMemLimitOrder)
    /\ \A s \in Servers : pc[s] = "encode" =>
         Promised(CurMemLimits, CurMemLimitOrder, answer[s], out[s], floor[s])

IInv == TypeOK /\ AnswersSound /\ NotAhead /\ Uncut

CountsOK ==
  /\ limit \in [Controllers -> 0 .. MaxChanges]
  /\ cuts \in 0 .. MaxCuts /\ restarts \in 0 .. MaxRestarts

LEMMA TypeParts ==
  /\ TypeOK <=> TableOK /\ PostsOK /\ CountsOK
  /\ TypeOK' <=> TableOK' /\ PostsOK' /\ CountsOK'
BY DEF TypeOK, TableOK, PostsOK, CountsOK, Arrays, Answers

LEMMA ItemIs ==
  ASSUME NEW tab, NEW a, NEW k
  PROVE  /\ a.array = {} => ItemOf(tab, a, k) = a.items[k]
         /\ \A c : a.array = {c} => ItemOf(tab, a, k) = tab[c][k]
BY DEF ItemOf

(* A table may change if it keeps the items of an answer. *)
LEMMA PromiseKept ==
  ASSUME NEW tab, NEW new, NEW order \in Seq(Controllers), NEW longer \in Seq(Controllers),
         NEW a, NEW b, a.len \in Nat, b.len = a.len, b.array # {} => b.array = a.array,
         Len(order) <= Len(longer), \A k \in 1 .. Len(order) : longer[k] = order[k],
         NEW encoded \in Seq(Items), Len(encoded) <= a.len, NEW items \in SUBSET Items,
         \A k \in 1 .. a.len : ItemOf(tab, a, k) \in Items /\ ItemOf(new, b, k) \in Items,
         \A k \in 1 .. a.len : /\ ItemOf(new, b, k).of = ItemOf(tab, a, k).of
                               /\ ItemOf(tab, a, k).limit <= ItemOf(new, b, k).limit,
         Promised(tab, order, a, encoded, items)
  PROVE  Promised(new, longer, b, encoded, items)
<1>1. Len(order) \in Nat /\ Len(longer) \in Nat /\ Len(encoded) \in Nat /\ a.len <= Len(order)
  BY DEF Promised
<1>2. \A k \in 1 .. a.len : ItemOf(new, b, k).of = longer[k]
  BY <1>1 DEF Promised
<1>3. \A k \in 1 .. Len(encoded) : encoded[k].of = longer[k]
  BY <1>1 DEF Promised
<1>4. ASSUME NEW item \in items
      PROVE  \E k \in 1 .. a.len :
               /\ item.of = longer[k] /\ item.limit <= ItemOf(new, b, k).limit
               /\ k <= Len(encoded) => item.limit <= encoded[k].limit
  <2>1. PICK k \in 1 .. a.len :
          /\ item.of = order[k] /\ item.limit <= ItemOf(tab, a, k).limit
          /\ k <= Len(encoded) => item.limit <= encoded[k].limit
    BY DEF Promised
  <2>2. item.limit \in Int /\ ItemOf(tab, a, k).limit \in Int /\ ItemOf(new, b, k).limit \in Int
    BY BoundsAssumption DEF Items
  <2>3. item.limit <= ItemOf(new, b, k).limit
    BY <2>1, <2>2
  <2> QED  BY <1>1, <2>1, <2>3
<1>5. b.array # {} => longer # <<>> /\ b.array = {longer[1]}
  <2> SUFFICES ASSUME b.array # {} PROVE longer # <<>> /\ b.array = {longer[1]}
    OBVIOUS
  <2>1. order # <<>> /\ b.array = {order[1]}
    BY DEF Promised
  <2>2. Len(order) # 0 /\ 1 \in 1 .. Len(order)
    BY <1>1, <2>1
  <2> QED  BY <1>1, <2>1, <2>2
<1> QED  BY <1>1, <1>2, <1>3, <1>4, <1>5 DEF Promised

LEMMA SoundItems ==
  ASSUME NEW tab, NEW a, a.items \in Seq(Items), a.len \in Nat, Sound(tab, a)
  PROVE  \A k \in 1 .. a.len : ItemOf(tab, a, k) \in Items
<1>1. CASE a.array = {}
  BY <1>1, ItemIs DEF Sound
<1>2. CASE a.array # {}
  BY <1>2, ItemIs DEF Sound
<1> QED  BY <1>1, <1>2

LEMMA InitIInv == Init => IInv
<1> SUFFICES ASSUME Init PROVE IInv
  OBVIOUS
<1>1. {MaxChanges, MaxCuts, MaxRestarts} \subseteq Nat /\ Cap \in Nat
  BY BoundsAssumption, CapAssumption
<1>2. <<>> \in Seq(Items) /\ <<>> \in Seq(Controllers) /\ Len(<<>>) = 0
  OBVIOUS
<1>3. TableOK
  BY <1>2 DEF Init, TableOK, Arrays, IsInjective
<1>4. PostsOK
  BY <1>2 DEF Init, PostsOK, Slice, Answers
<1>5. TypeOK
  BY <1>1, <1>3, <1>4, TypeParts DEF Init, CountsOK
<1>6. AnswersSound
  BY <1>2 DEF Init, AnswersSound, Sound, Slice
<1>7. NotAhead
  BY DEF Init, NotAhead
<1>8. Uncut
  BY <1>2 DEF Init, Uncut, InOrder
<1> QED  BY <1>5, <1>6, <1>7, <1>8 DEF IInv
-----------------------------------------------------------------------------
LEMMA ChangeLimitStep ==
  ASSUME IInv, NEW c \in Controllers, ChangeLimit(c)
  PROVE  IInv'
<1>1. /\ limit \in [Controllers -> 0 .. MaxChanges] /\ MaxChanges \in Nat
      /\ SumFunction(limit) < MaxChanges /\ limit' = [limit EXCEPT ![c] = @ + 1]
  BY BoundsAssumption DEF IInv, TypeOK, ChangeLimit
<1>2. limit[c] <= SumFunction(limit) /\ SumFunction(limit) \in Nat
  <2>1. DOMAIN limit = Controllers /\ \A d \in Controllers : limit[d] \in Int /\ limit[d] >= 0
    BY <1>1
  <2>2. SumFunction(limit) = SumFunctionOnSet(limit, Controllers)
    BY <2>1 DEF SumFunction, SumFunctionOnSet, FoldFunction
  <2> QED  BY <2>1, <2>2, SetsAssumption, SumNonNegative
<1>3. limit[c] + 1 \in 0 .. MaxChanges
  BY <1>1, <1>2
<1>4. /\ limit' \in [Controllers -> 0 .. MaxChanges]
      /\ \A d \in Controllers : limit[d] \in Nat /\ limit'[d] \in Nat /\ limit[d] <= limit'[d]
  BY <1>1, <1>3
<1>5. UNCHANGED <<CurMemLimits, CurMemLimitOrder, pc, answer, out, floor, basis, cuts, restarts>>
  BY DEF ChangeLimit, tableVars, answerVars, boundVars
<1>6. TypeOK'
  BY <1>4, <1>5 DEF IInv, TypeOK, Registered
<1>7. AnswersSound' /\ Uncut'
  BY <1>5 DEF IInv, AnswersSound, Uncut
<1>8. NotAhead'
  <2> SUFFICES ASSUME NEW d \in Controllers, CurMemLimits[d] # <<>>
               PROVE  CurMemLimits[d][1].limit <= limit'[d]
    BY <1>5 DEF NotAhead
  <2>1. CurMemLimits[d][1].limit <= limit[d] /\ CurMemLimits[d][1].limit \in Int
    BY BoundsAssumption DEF IInv, NotAhead, TypeOK, Items
  <2> QED  BY <1>4, <2>1
<1> QED  BY <1>6, <1>7, <1>8 DEF IInv

LEMMA RegisterKeeps ==
  ASSUME TypeOK, NEW c \in Controllers, Register(c)
  PROVE  /\ CurMemLimitOrder' \in Seq(Controllers) /\ IsInjective(CurMemLimitOrder)'
         /\ \A d \in Controllers : d \in Registered \/ d = c => d \in Registered'
         /\ Len(CurMemLimitOrder) <= Len(CurMemLimitOrder')
         /\ \A k \in 1 .. Len(CurMemLimitOrder) : CurMemLimitOrder'[k] = CurMemLimitOrder[k]
         /\ \A k \in 1 .. Len(CurMemLimitOrder') :
              k \in 1 .. Len(CurMemLimitOrder) \/ CurMemLimitOrder'[k] = c
         /\ CurMemLimitOrder' # <<>>
<1>1. PICK order \in Seq(Controllers) : order = CurMemLimitOrder
  BY DEF TypeOK
<1>2. PICK new : new = CurMemLimitOrder'
  OBVIOUS
<1>3. \A i, j \in 1 .. Len(order) : order[i] = order[j] => i = j
  BY <1>1 DEF TypeOK, IsInjective
<1>4. Registered = {order[i] : i \in 1 .. Len(order)} /\ Len(order) \in Nat
  BY <1>1 DEF Registered, ToSet
<1>5. CASE c \in Registered
  <2>1. new = order
    BY <1>1, <1>2, <1>5 DEF Register
  <2>2. order # <<>>
    BY <1>4, <1>5
  <2>3. Registered' = Registered
    BY <1>1, <1>2, <2>1 DEF Registered
  <2> QED  BY <1>1, <1>2, <1>3, <1>5, <2>1, <2>2, <2>3 DEF IsInjective
<1>6. CASE c \notin Registered
  <2>1. new = Append(order, c)
    BY <1>1, <1>2, <1>6 DEF Register
  <2>2. /\ new \in Seq(Controllers) /\ Len(new) = Len(order) + 1
        /\ \A k \in 1 .. Len(order) : new[k] = order[k]
        /\ new[Len(order) + 1] = c
    BY <2>1
  <2>3. \A i \in 1 .. Len(order) : order[i] # c
    BY <1>4, <1>6
  <2>4. \A k \in 1 .. Len(new) : k \in 1 .. Len(order) \/ k = Len(order) + 1
    BY <1>4, <2>2
  <2>5. \A i, j \in 1 .. Len(new) : new[i] = new[j] => i = j
    BY <1>3, <2>2, <2>3, <2>4
  <2>6. Registered' = {new[i] : i \in 1 .. Len(new)}
    BY <1>2, <2>2 DEF Registered, ToSet
  <2>7. \A k \in 1 .. Len(order) + 1 : k \in 1 .. Len(new)
    BY <2>2
  <2>8. Len(order) + 1 \in 1 .. Len(new)
    BY <1>4, <2>2
  <2>9. \A d \in Controllers : d \in Registered \/ d = c => d \in Registered'
    <3> SUFFICES ASSUME NEW d \in Controllers, d \in Registered \/ d = c
                 PROVE  \E i \in 1 .. Len(new) : new[i] = d
      BY <2>6
    <3>1. CASE d = c
      BY <2>2, <2>8, <3>1
    <3>2. CASE d \in Registered
      <4>1. PICK i \in 1 .. Len(order) : d = order[i]
        BY <1>4, <3>2
      <4>2. i \in 1 .. Len(new)
        BY <1>4, <2>2
      <4> QED  BY <2>2, <4>1, <4>2
    <3> QED  BY <3>1, <3>2
  <2>10. DOMAIN new = 1 .. Len(new) /\ new # <<>>
    BY <1>4, <2>2
  <2> QED  BY <1>1, <1>2, <1>4, <2>2, <2>4, <2>5, <2>9, <2>10 DEF IsInjective
<1> QED  BY <1>5, <1>6

LEMMA PutMemCutStep ==
  ASSUME IInv, NEW c \in Controllers, PutMemCut(c)
  PROVE  IInv'
<1>1. TypeOK /\ TableOK /\ cuts \in Nat /\ MaxCuts \in Nat
  BY BoundsAssumption, TypeParts DEF IInv, CountsOK
<1>2. /\ UNCHANGED <<limit, CurMemLimits, pc, answer, out, floor, basis, restarts>>
      /\ cuts < MaxCuts /\ cuts' = cuts + 1 /\ Register(c)
  BY DEF PutMemCut, answerVars
<1>3. TableOK'
  BY <1>1, <1>2, RegisterKeeps DEF TableOK
<1>4. cuts' \in 0 .. MaxCuts /\ cuts' # 0
  BY <1>1, <1>2
<1>5. TypeOK'
  BY <1>1, <1>2, <1>3, <1>4, TypeParts DEF PostsOK, CountsOK
<1>6. AnswersSound' /\ NotAhead' /\ Uncut'
  BY <1>2, <1>4 DEF IInv, AnswersSound, NotAhead, Uncut
<1> QED  BY <1>5, <1>6 DEF IInv

LEMMA DecodedIs ==
  ASSUME TypeOK, NEW c \in Controllers
  PROVE  /\ Decoded(c) \in [1 .. Cap -> Items \cup {Empty}] /\ Decoded(c) # <<>>
         /\ Decoded(c)[1] = [of |-> c, limit |-> limit[c]] /\ Decoded(c)[1] \in Items
         /\ \A k \in 1 .. Cap : k # 1 => Decoded(c)[k] = Empty
<1>1. Cap \in Nat /\ 1 \in 1 .. Cap /\ limit[c] \in 0 .. MaxChanges
  BY CapAssumption DEF TypeOK
<1>2. [of |-> c, limit |-> limit[c]] \in Items
  BY <1>1 DEF Items
<1> QED  BY <1>1, <1>2 DEF Decoded

(* An answer once the array of a controller is no longer in the table. *)
LetGo(tab, c, a) == IF c \in a.array THEN Slice(SubSeq(tab[c], 1, a.len)) ELSE a

(* An answer that is still encoded from the array of a controller goes on  *)
(* with what was in there.                                                 *)
LEMMA ArrayKept ==
  ASSUME NEW tab \in [Controllers -> Arrays], NEW new \in [Controllers -> Arrays],
         NEW c \in Controllers, \A d \in Controllers : d # c => new[d] = tab[d],
         NEW a \in Answers, Sound(tab, a),
         NEW b, b = LetGo(tab, c, a)
  PROVE  /\ b \in Answers
         /\ Sound(new, b) /\ b.len = a.len /\ (b.array # {} => b.array = a.array /\ c \notin a.array)
         /\ \A k \in 1 .. a.len : ItemOf(new, b, k) = ItemOf(tab, a, k)
<1>1. CASE c \in a.array
  <2>1. /\ a.array = {c} /\ tab[c] # <<>> /\ a.len \in Nat /\ a.len <= Cap /\ Cap \in Nat
        /\ \A k \in 1 .. a.len : tab[c][k] \in Items
    BY <1>1, CapAssumption DEF Sound, Answers
  <2>2. PICK items : items = SubSeq(tab[c], 1, a.len)
    OBVIOUS
  <2>3. tab[c] \in [1 .. Cap -> Items \cup {Empty}]
    BY <2>1 DEF Arrays
  <2>4. tab[c] \in Seq(Items \cup {Empty}) /\ Len(tab[c]) = Cap
    BY <2>1, <2>3
  <2>5. Len(items) = a.len /\ \A k \in 1 .. a.len : items[k] = tab[c][k]
    BY <2>1, <2>2, <2>4, SubSeqProperties
  <2>6. items \in Seq(Items \cup {Empty})
    BY <2>1, <2>2, <2>4, SubSeqProperties
  <2>7. items \in Seq(Items)
    BY <2>1, <2>5, <2>6
  <2>8. b = [array |-> {}, len |-> a.len, items |-> items]
    BY <1>1, <2>2, <2>5 DEF LetGo, Slice
  <2>9. \A k \in 1 .. a.len : ItemOf(new, b, k) = items[k] /\ ItemOf(tab, a, k) = tab[c][k]
    BY <2>1, <2>8, ItemIs
  <2>10. b.array = {} /\ b.len = a.len /\ b.items = items
         /\ b \in Answers
    BY <2>1, <2>7, <2>8 DEF Answers
  <2>11. Sound(new, b)
    BY <2>5, <2>10 DEF Sound
  <2> QED  BY <2>5, <2>9, <2>10, <2>11
<1>2. CASE c \notin a.array
  <2>1. b = a
    BY <1>2 DEF LetGo
  <2>2. CASE a.array = {}
    BY <2>1, <2>2, ItemIs DEF Sound
  <2>3. CASE a.array # {}
    <3>1. PICK d \in Controllers : /\ a.array = {d} /\ tab[d] # <<>> /\ a.len <= Cap
                                   /\ \A k \in 1 .. a.len : tab[d][k] \in Items
      BY <2>3 DEF Sound
    <3>2. new[d] = tab[d]
      BY <1>2, <3>1
    <3>3. \A k \in 1 .. a.len : ItemOf(new, b, k) = new[d][k] /\ ItemOf(tab, a, k) = tab[d][k]
      BY <2>1, <3>1, ItemIs
    <3> QED  BY <1>2, <2>1, <2>3, <3>1, <3>2, <3>3 DEF Sound
  <2> QED  BY <2>2, <2>3
<1> QED  BY <1>1, <1>2

(* The first array only ever has limits in the order of the controllers,   *)
(* none of them newer than what that controller has now.                   *)
LEMMA PutMemInOrder ==
  ASSUME IInv, cuts = 0, NEW c \in Controllers, PutMem(c)
  PROVE  InOrder(CurMemLimits', CurMemLimitOrder')
<1>0. PICK tab \in [Controllers -> Arrays], order \in Seq(Controllers) :
        tab = CurMemLimits /\ order = CurMemLimitOrder
  BY TypeParts DEF IInv, TableOK
<1>1. PICK new, longer : new = CurMemLimits' /\ longer = CurMemLimitOrder'
  OBVIOUS
<1>2. PICK fresh : fresh = Decoded(c)
  OBVIOUS
<1>3. /\ TypeOK /\ InOrder(tab, order) /\ new = [tab EXCEPT ![c] = fresh] /\ Register(c)
      /\ Cap \in Nat /\ 1 \in 1 .. Cap
  BY <1>0, <1>1, <1>2, CapAssumption DEF IInv, Uncut, PutMem
<1>4. /\ longer \in Seq(Controllers) /\ Len(order) <= Len(longer) /\ longer # <<>>
      /\ \A k \in 1 .. Len(order) : longer[k] = order[k]
      /\ \A k \in 1 .. Len(longer) : k \in 1 .. Len(order) \/ longer[k] = c
  BY <1>0, <1>1, <1>3, RegisterKeeps
<1>5. /\ fresh # <<>> /\ fresh[1] = [of |-> c, limit |-> limit[c]]
      /\ \A k \in 1 .. Cap : k # 1 => fresh[k] = Empty
  BY <1>2, <1>3, DecodedIs
<1>6. Len(order) \in Nat /\ Len(longer) \in Nat /\ Len(longer) # 0 /\ 1 \in 1 .. Len(longer)
  BY <1>4
<1>7. ASSUME NEW k \in 1 .. Len(longer) PROVE new[longer[k]] # <<>>
  <2>1. CASE longer[k] = c
    BY <1>0, <1>3, <1>5, <2>1
  <2>2. CASE longer[k] # c
    <3>1. k \in 1 .. Len(order) /\ longer[k] = order[k] /\ order[k] \in Controllers
      BY <1>4, <2>2
    <3> QED  BY <1>0, <1>3, <2>2, <3>1 DEF InOrder
  <2> QED  BY <2>1, <2>2
<1>8. ASSUME NEW k \in 1 .. Cap, new[longer[1]][k] # Empty
      PROVE  /\ k <= Len(longer) /\ new[longer[1]][k].of = longer[k]
             /\ new[longer[1]][k].limit <= new[longer[k]][1].limit
  <2>0. limit[c] \in Int
    BY BoundsAssumption, TypeParts DEF IInv, CountsOK
  <2>1. CASE longer[1] = c
    <3>1. new[longer[1]] = fresh
      BY <1>0, <1>3, <2>1
    <3>2. k = 1
      BY <1>5, <1>8, <3>1
    <3> QED  BY <1>5, <1>6, <2>0, <2>1, <3>1, <3>2
  <2>2. CASE longer[1] # c
    <3>1. 1 \in 1 .. Len(order) /\ longer[1] = order[1] /\ order # <<>> /\ order[1] \in Controllers
      BY <1>4, <1>6, <2>2
    <3>2. new[longer[1]] = tab[order[1]]
      BY <1>0, <1>3, <2>2, <3>1
    <3>3. /\ k <= Len(order) /\ tab[order[1]][k].of = order[k]
          /\ tab[order[1]][k].limit <= tab[order[k]][1].limit
      BY <1>3, <1>8, <3>1, <3>2 DEF InOrder
    <3>4. k \in 1 .. Len(order) /\ longer[k] = order[k] /\ order[k] \in Controllers
      BY <1>4, <1>6, <3>3
    <3>5. CASE order[k] = c
      <4>1. tab[order[1]] \in [1 .. Cap -> Items \cup {Empty}] /\ tab[c] # <<>>
        BY <1>3, <3>1, <3>4, <3>5 DEF InOrder, Arrays
      <4>2. tab[order[1]][k] \in Items /\ tab[c][1] \in Items /\ tab[c][1].limit <= limit[c]
        <5>1. tab[order[1]][k] \in Items \cup {Empty} /\ tab[order[1]][k] # Empty
          BY <1>8, <3>2, <4>1
        <5>2. TableOK /\ NotAhead
          BY TypeParts DEF IInv
        <5>3. tab[c][1] \in Items /\ tab[c][1].limit <= limit[c]
          BY <1>0, <4>1, <5>2 DEF TableOK, NotAhead
        <5> QED  BY <5>1, <5>3
      <4>3. tab[order[1]][k].limit \in Int /\ tab[c][1].limit \in Int
        BY <4>2, BoundsAssumption DEF Items
      <4>4. new[c][1].limit = limit[c]
        BY <1>0, <1>3, <1>5
      <4>5. tab[order[1]][k].limit <= new[longer[k]][1].limit
        BY <2>0, <3>3, <3>4, <3>5, <4>2, <4>3, <4>4
      <4> QED  BY <1>6, <3>2, <3>3, <3>4, <4>5, <1>4
    <3>6. CASE order[k] # c
      <4>1. new[longer[k]] = tab[order[k]]
        BY <1>0, <1>3, <3>4, <3>6
      <4> QED  BY <1>4, <1>6, <3>2, <3>3, <3>4, <4>1
    <3> QED  BY <3>5, <3>6
  <2> QED  BY <2>1, <2>2
<1> QED  BY <1>1, <1>7, <1>8 DEF InOrder

LEMMA PutMemStep ==
  ASSUME IInv, NEW c \in Controllers, PutMem(c)
  PROVE  IInv'
<1>0. TypeOK /\ TableOK /\ PostsOK /\ CountsOK /\ AnswersSound
  BY TypeParts DEF IInv
<1>1. /\ UNCHANGED <<limit, pc, out, floor, basis, cuts, restarts>> /\ Register(c)
      /\ CurMemLimits' = [CurMemLimits EXCEPT ![c] = Decoded(c)]
      /\ \A s \in Servers : answer'[s] = IF c \in answer[s].array
                                           THEN Slice(SubSeq(CurMemLimits[c], 1, answer[s].len)) ELSE answer[s]
      /\ DOMAIN answer' = Servers /\ answer' = [s \in Servers |-> answer'[s]]
  BY DEF PutMem, boundVars
<1>2. /\ CurMemLimits \in [Controllers -> Arrays] /\ Decoded(c) \in Arrays
      /\ CurMemLimits' \in [Controllers -> Arrays]
      /\ \A d \in Controllers : d # c => CurMemLimits'[d] = CurMemLimits[d]
      /\ CurMemLimits'[c] = Decoded(c)
  <2>1. Decoded(c) \in Arrays
    BY <1>0, DecodedIs DEF Arrays
  <2> QED  BY <1>0, <1>1, <2>1 DEF TableOK
<1>3. TableOK'
  <2>1. \A d \in Controllers : CurMemLimits'[d] # <<>> =>
          d \in Registered' /\ CurMemLimits'[d][1] \in Items /\ CurMemLimits'[d][1].of = d
    <3> SUFFICES ASSUME NEW d \in Controllers, CurMemLimits'[d] # <<>>
                 PROVE  d \in Registered' /\ CurMemLimits'[d][1] \in Items /\ CurMemLimits'[d][1].of = d
      OBVIOUS
    <3>1. d = c \/ d \in Registered
      BY <1>0, <1>2 DEF TableOK
    <3>2. d \in Registered'
      BY <1>0, <1>1, <3>1, RegisterKeeps
    <3>3. CASE d = c
      <4>1. CurMemLimits'[c][1] \in Items /\ CurMemLimits'[c][1].of = c
        <5>1. Decoded(c)[1] = [of |-> c, limit |-> limit[c]] /\ Decoded(c)[1] \in Items
          BY <1>0, DecodedIs
        <5> QED  BY <1>2, <5>1
      <4> QED  BY <3>2, <3>3, <4>1
    <3>4. CASE d # c
      BY <1>0, <1>2, <3>2, <3>4 DEF TableOK
    <3> QED  BY <3>3, <3>4
  <2>2. CurMemLimitOrder' \in Seq(Controllers) /\ IsInjective(CurMemLimitOrder)'
    BY <1>0, <1>1, RegisterKeeps
  <2> QED  BY <1>2, <2>1, <2>2 DEF TableOK
<1>4. ASSUME NEW s \in Servers
      PROVE  /\ answer'[s] \in Answers
             /\ Sound(CurMemLimits', answer'[s]) /\ answer'[s].len = answer[s].len
             /\ answer'[s].array # {} => answer'[s].array = answer[s].array
             /\ \A k \in 1 .. answer[s].len :
                  ItemOf(CurMemLimits', answer'[s], k) = ItemOf(CurMemLimits, answer[s], k)
  <2>1. PICK a \in Answers : a = answer[s]
    BY <1>0 DEF PostsOK
  <2>2. PICK b : b = answer'[s]
    OBVIOUS
  <2>3. PICK tab \in [Controllers -> Arrays], new \in [Controllers -> Arrays] :
          tab = CurMemLimits /\ new = CurMemLimits'
    BY <1>2
  <2>4. Sound(tab, a) /\ b = LetGo(tab, c, a)
    BY <1>0, <1>1, <2>1, <2>2, <2>3 DEF AnswersSound, LetGo
  <2>5. \A d \in Controllers : d # c => new[d] = tab[d]
    BY <1>2, <2>3
  <2>6. /\ b \in Answers
        /\ Sound(new, b) /\ b.len = a.len /\ (b.array # {} => b.array = a.array)
        /\ \A k \in 1 .. a.len : ItemOf(new, b, k) = ItemOf(tab, a, k)
    BY <2>1, <2>3, <2>4, <2>5, ArrayKept
  <2> QED  BY <2>1, <2>2, <2>3, <2>6
<1>5. TypeOK'
  <2>1. PostsOK'
    BY <1>0, <1>1, <1>4 DEF PostsOK
  <2> QED  BY <1>0, <1>1, <1>3, <2>1, TypeParts DEF CountsOK
<1>6. AnswersSound'
  BY <1>0, <1>1, <1>4 DEF AnswersSound
<1>7. NotAhead'
  <2> SUFFICES ASSUME NEW d \in Controllers, CurMemLimits'[d] # <<>>
               PROVE  CurMemLimits'[d][1].limit <= limit[d]
    BY <1>1 DEF NotAhead
  <2>1. CASE d = c
    <3>1. limit[c] \in Int
      BY <1>0, BoundsAssumption DEF CountsOK
    <3>2. Decoded(c)[1] = [of |-> c, limit |-> limit[c]]
      BY <1>0, DecodedIs
    <3>3. CurMemLimits'[d][1] = [of |-> c, limit |-> limit[c]]
      BY <1>2, <2>1, <3>2
    <3> QED  BY <2>1, <3>1, <3>3
  <2>2. CASE d # c
    BY <1>2, <2>2 DEF IInv, NotAhead
  <2> QED  BY <2>1, <2>2
<1>8. Uncut'
  <2> SUFFICES ASSUME cuts = 0, NEW s \in Servers, pc[s] = "encode"
               PROVE  Promised(CurMemLimits', CurMemLimitOrder', answer'[s], out[s], floor[s])
    <3>1. cuts = 0 => InOrder(CurMemLimits', CurMemLimitOrder')
      BY PutMemInOrder
    <3> QED  BY <1>1, <3>1 DEF Uncut
  <2>1. PICK tab, a, order : tab = CurMemLimits /\ a = answer[s] /\ order = CurMemLimitOrder
    OBVIOUS
  <2>2. PICK new, b, longer : new = CurMemLimits' /\ b = answer'[s] /\ longer = CurMemLimitOrder'
    OBVIOUS
  <2>3. PICK encoded \in Seq(Items), items \in SUBSET Items : encoded = out[s] /\ items = floor[s]
    BY <1>0 DEF PostsOK
  <2>4. /\ order \in Seq(Controllers) /\ longer \in Seq(Controllers) /\ Len(order) <= Len(longer)
        /\ \A k \in 1 .. Len(order) : longer[k] = order[k]
    BY <1>0, <1>1, <2>1, <2>2, RegisterKeeps DEF TableOK
  <2>5. /\ a.len \in Nat /\ a.items \in Seq(Items) /\ Sound(tab, a) /\ Len(encoded) <= a.len
        /\ Promised(tab, order, a, encoded, items)
    BY <1>0, <2>1, <2>3 DEF PostsOK, Answers, AnswersSound, IInv, Uncut
  <2>6. /\ b.len = a.len /\ (b.array # {} => b.array = a.array)
        /\ \A k \in 1 .. a.len : ItemOf(new, b, k) = ItemOf(tab, a, k)
    BY <1>4, <2>1, <2>2
  <2>7. ASSUME NEW k \in 1 .. a.len
        PROVE  /\ ItemOf(tab, a, k) \in Items /\ ItemOf(new, b, k) \in Items
               /\ ItemOf(new, b, k).of = ItemOf(tab, a, k).of
               /\ ItemOf(tab, a, k).limit <= ItemOf(new, b, k).limit
    <3>1. ItemOf(tab, a, k) \in Items /\ ItemOf(new, b, k) = ItemOf(tab, a, k)
      BY <2>5, <2>6, SoundItems
    <3>2. ItemOf(tab, a, k).limit \in Int
      BY <3>1, BoundsAssumption DEF Items
    <3> QED  BY <3>1, <3>2
  <2>8. Promised(new, longer, b, encoded, items)
    BY <2>4, <2>5, <2>6, <2>7, PromiseKept
  <2> QED  BY <2>2, <2>3, <2>8
<1> QED  BY <1>5, <1>6, <1>7, <1>8 DEF IInv
-----------------------------------------------------------------------------
(* A copy writes nothing into the table that was not there before, but     *)
(* newer limits of the same controllers.                                   *)
LEMMA CopyKeeps ==
  ASSUME IInv, NEW new, new = Appended
  PROVE  /\ new \in [Controllers -> Arrays]
         /\ \A c \in Controllers : /\ new[c] # <<>> <=> CurMemLimits[c] # <<>>
                                   /\ new[c] # <<>> => new[c][1] = CurMemLimits[c][1]
         /\ \A a \in Answers : Sound(CurMemLimits, a) => Sound(new, a)
<1>0. TypeOK /\ TableOK /\ Cap \in Nat
  BY CapAssumption, TypeParts DEF IInv
<1>1. /\ new \in [Controllers -> Arrays]
      /\ \A c \in Controllers : /\ new[c] # <<>> <=> CurMemLimits[c] # <<>>
                                /\ new[c] # <<>> => new[c][1] = CurMemLimits[c][1]
  BY <1>0, AppendedIs
<1>2. ASSUME NEW c \in Controllers, CurMemLimits[c] # <<>>, NEW k \in 1 .. Cap,
             CurMemLimits[c][k] \in Items
      PROVE  new[c][k] \in Items
  <2>1. (k \in 1 .. Len(All) /\ new[c][k] = All[k]) \/ new[c][k] = CurMemLimits[c][k]
    BY <1>0, <1>2, AppendedIs
  <2>2. All \in Seq(Items)
    BY <1>0, EntriesAre
  <2> QED  BY <1>2, <2>1, <2>2
<1>3. ASSUME NEW a \in Answers, Sound(CurMemLimits, a) PROVE Sound(new, a)
  <2> SUFFICES ASSUME a.array # {}
               PROVE  \E c \in Controllers : /\ a.array = {c} /\ new[c] # <<>> /\ a.len <= Cap
                                             /\ \A k \in 1 .. a.len : new[c][k] \in Items
    BY <1>3 DEF Sound
  <2>1. PICK c \in Controllers : /\ a.array = {c} /\ CurMemLimits[c] # <<>> /\ a.len <= Cap
                                 /\ \A k \in 1 .. a.len : CurMemLimits[c][k] \in Items
    BY <1>3 DEF Sound
  <2>2. \A k \in 1 .. a.len : k \in 1 .. Cap
    BY <1>0, <2>1 DEF Answers
  <2> QED  BY <1>1, <1>2, <2>1, <2>2
<1> QED  BY <1>1, <1>3

(* As long as no post was cut off.                                         *)
LEMMA CopyInOrder ==
  ASSUME IInv, cuts = 0, NEW new, new = Appended, NEW order, order = CurMemLimitOrder
  PROVE  /\ InOrder(new, order)
         /\ \A a \in Answers :
              /\ Sound(CurMemLimits, a) /\ a.len <= Len(order)
              /\ a.array # {} => order # <<>> /\ a.array = {order[1]}
              => \A k \in 1 .. a.len :
                   /\ ItemOf(new, a, k).of = ItemOf(CurMemLimits, a, k).of
                   /\ ItemOf(CurMemLimits, a, k).limit <= ItemOf(new, a, k).limit
<1>0. PICK tab : tab = CurMemLimits
  OBVIOUS
<1>1. /\ order \in Seq(Controllers) /\ InOrder(tab, order) /\ TypeOK /\ Cap \in Nat
      /\ Len(order) \in Nat /\ DOMAIN order = 1 .. Len(order)
      /\ \A k \in 1 .. Len(order) : order[k] \in Controllers /\ tab[order[k]] # <<>>
  BY <1>0, CapAssumption DEF IInv, Uncut, InOrder, TypeOK
<1>2. Entries = order /\ Len(All) = Len(order)
      /\ \A k \in 1 .. Len(order) : All[k] = tab[order[k]][1]
  BY <1>0, <1>1, EntriesAre
<1>3. \A k \in 1 .. Len(order) : All[k].of = order[k] /\ All[k].limit \in Int
  <2>1. ASSUME NEW k \in 1 .. Len(order)
        PROVE  tab[order[k]][1] \in Items /\ tab[order[k]][1].of = order[k]
    <3>1. order[k] \in Controllers /\ tab[order[k]] # <<>>
      BY <1>1
    <3> QED  BY <1>0, <1>1, <3>1 DEF TypeOK
  <2> QED  BY <1>2, <2>1, BoundsAssumption DEF Items
<1>4. \A k \in 1 .. Len(order) : new[order[k]] # <<>> /\ new[order[k]][1] = All[k]
  BY <1>0, <1>1, <1>2, CopyKeeps
<1>5. ASSUME order # <<>>, NEW k \in 1 .. Cap
      PROVE  new[order[1]][k] = IF k \in 1 .. Len(order) THEN All[k] ELSE tab[order[1]][k]
  <2>1. 1 \in 1 .. Len(order)
    BY <1>1, <1>5
  <2>2. order[1] \in Controllers /\ CurMemLimits[order[1]] # <<>>
    BY <1>0, <1>1, <2>1
  <2> QED  BY <1>0, <1>1, <1>2, <1>5, <2>2, AppendedIs
<1>6. InOrder(new, order)
  <2> SUFFICES ASSUME order # <<>>, NEW k \in 1 .. Cap, new[order[1]][k] # Empty
               PROVE  /\ k <= Len(order) /\ new[order[1]][k].of = order[k]
                      /\ new[order[1]][k].limit <= new[order[k]][1].limit
    BY <1>4 DEF InOrder
  <2>1. k \in 1 .. Len(order)
    <3>1. CASE k \notin 1 .. Len(order)
      <4>1. tab[order[1]][k] # Empty
        BY <1>5, <3>1
      <4> QED  BY <1>1, <3>1, <4>1 DEF InOrder
    <3> QED  BY <3>1
  <2>2. new[order[1]][k] = All[k]
    BY <1>5, <2>1
  <2> QED  BY <1>1, <1>3, <1>4, <2>1, <2>2
<1>7. ASSUME NEW a \in Answers, Sound(tab, a), a.len <= Len(order),
             a.array # {} => order # <<>> /\ a.array = {order[1]},
             NEW k \in 1 .. a.len
      PROVE  /\ ItemOf(new, a, k).of = ItemOf(tab, a, k).of
             /\ ItemOf(tab, a, k).limit <= ItemOf(new, a, k).limit
  <2>0. a.items \in Seq(Items) /\ a.len \in Nat
    BY DEF Answers
  <2>1. ItemOf(tab, a, k) \in Items /\ ItemOf(tab, a, k).limit \in Int
    <3>1. ItemOf(tab, a, k) \in Items
      BY <1>7, <2>0, SoundItems
    <3> QED  BY <3>1, BoundsAssumption DEF Items
  <2>2. CASE a.array = {}
    <3>1. ItemOf(new, a, k) = ItemOf(tab, a, k)
      BY <2>2, ItemIs
    <3> QED  BY <2>1, <3>1
  <2>3. CASE a.array # {}
    <3>1. order # <<>> /\ ItemOf(new, a, k) = new[order[1]][k] /\ ItemOf(tab, a, k) = tab[order[1]][k]
      BY <1>7, <2>3, ItemIs
    <3>2. k \in 1 .. Len(order) /\ k \in 1 .. Cap
      BY <1>1, <1>7, <2>0, <2>3 DEF Sound
    <3>3. tab[order[1]][k] # Empty
      BY <2>1, <3>1, EmptyIsNoItem
    <3>4. tab[order[1]][k].of = order[k] /\ tab[order[1]][k].limit <= tab[order[k]][1].limit
      BY <1>1, <3>1, <3>2, <3>3 DEF InOrder
    <3>5. new[order[1]][k] = All[k]
      BY <1>5, <3>1, <3>2
    <3> QED  BY <1>2, <1>3, <3>1, <3>2, <3>4, <3>5
  <2> QED  BY <2>2, <2>3
<1> QED  BY <1>0, <1>6, <1>7

(* What a copy of the table returns is what CopyMemStat collected. *)
LEMMA CopyIs ==
  ASSUME IInv, NEW new, new = Appended, NEW b, b = CopyMemStat
  PROVE  /\ b \in Answers /\ Sound(new, b) /\ b.len = Len(All)
         /\ b.array # {} => Entries # <<>> /\ b.array = {Entries[1]}
         /\ \A k \in 1 .. b.len : ItemOf(new, b, k) = All[k]
<1>1. /\ TypeOK /\ Cap \in Nat /\ All \in Seq(Items) /\ Len(All) \in Nat
      /\ Entries \in Seq(Controllers) /\ Len(All) = Len(Entries)
      /\ \A k \in 1 .. Len(All) : All[k] \in Items
  <2>1. TypeOK /\ Cap \in Nat
    BY CapAssumption DEF IInv
  <2> QED  BY <2>1, EntriesAre
<1>2. CASE Len(All) \in 1 .. Cap
  <2>1. Entries # <<>> /\ 1 \in 1 .. Len(Entries)
    BY <1>1, <1>2
  <2>2. PICK first \in Controllers : first = Entries[1]
    BY <1>1, <2>1
  <2>3. b = [array |-> {first}, len |-> Len(All), items |-> <<>>]
    BY <1>2, <2>2 DEF CopyMemStat, SliceOf
  <2>4. CurMemLimits[first] # <<>>
    BY <1>1, <2>1, <2>2, EntriesAre
  <2>5. new[first] # <<>>
    BY <2>4, CopyKeeps
  <2>6. \A k \in 1 .. Len(All) : new[first][k] = All[k]
    <3> SUFFICES ASSUME NEW k \in 1 .. Len(All) PROVE new[first][k] = All[k]
      OBVIOUS
    <3>1. k \in 1 .. Cap
      BY <1>1, <1>2
    <3> QED  BY <1>1, <2>1, <2>2, <2>4, <3>1, AppendedIs
  <2>7. b.array = {first} /\ b.len = Len(All) /\ b \in Answers
    BY <1>1, <2>2, <2>3 DEF Answers
  <2>8. \A k \in 1 .. b.len : ItemOf(new, b, k) = All[k]
    BY <2>6, <2>7, ItemIs
  <2>9. \A k \in 1 .. b.len : new[first][k] \in Items
    BY <1>1, <2>6, <2>7
  <2>10. Sound(new, b)
    BY <1>1, <1>2, <2>2, <2>5, <2>7, <2>9 DEF Sound
  <2> QED  BY <2>1, <2>2, <2>7, <2>8, <2>10
<1>3. CASE Len(All) \notin 1 .. Cap
  <2>1. b = [array |-> {}, len |-> Len(All), items |-> All]
    BY <1>3 DEF CopyMemStat, Slice
  <2>2. b.array = {} /\ b.len = Len(All) /\ b.items = All /\ b \in Answers
    BY <1>1, <2>1 DEF Answers
  <2>3. Sound(new, b)
    BY <2>2 DEF Sound
  <2> QED  BY <2>2, <2>3, ItemIs
<1> QED  BY <1>2, <1>3

(* A step that copies the table keeps what TypeOK says of it. *)
LEMMA CopyStep ==
  ASSUME IInv, CurMemLimits' = Appended, UNCHANGED <<limit, CurMemLimitOrder, cuts, restarts>>
  PROVE  TableOK' /\ CountsOK' /\ NotAhead'
<1>1. PICK new : new = Appended
  OBVIOUS
<1>2. /\ new \in [Controllers -> Arrays]
      /\ \A c \in Controllers : /\ new[c] # <<>> <=> CurMemLimits[c] # <<>>
                                /\ new[c] # <<>> => new[c][1] = CurMemLimits[c][1]
  BY <1>1, CopyKeeps
<1>3. TableOK /\ CountsOK /\ NotAhead
  BY TypeParts DEF IInv
<1>4. TableOK'
  BY <1>1, <1>2, <1>3 DEF TableOK, Registered
<1>5. CountsOK'
  BY <1>3 DEF CountsOK
<1>6. NotAhead'
  BY <1>1, <1>2, <1>3 DEF NotAhead
<1> QED  BY <1>4, <1>5, <1>6

(* The answers that are still to be encoded keep their promise. *)
LEMMA CopyPromise ==
  ASSUME IInv, CurMemLimits' = Appended, UNCHANGED CurMemLimitOrder,
         cuts = 0, NEW s \in Servers, pc[s] = "encode"
  PROVE  Promised(CurMemLimits', CurMemLimitOrder', answer[s], out[s], floor[s])
<1>1. PICK tab, order, a, new : /\ tab = CurMemLimits /\ order = CurMemLimitOrder
                                /\ a = answer[s] /\ new = Appended
  OBVIOUS
<1>2. PICK encoded, items : encoded = out[s] /\ items = floor[s]
  OBVIOUS
<1>3. /\ order \in Seq(Controllers) /\ a \in Answers /\ Sound(tab, a)
      /\ encoded \in Seq(Items) /\ Len(encoded) <= a.len /\ items \in SUBSET Items
      /\ Promised(tab, order, a, encoded, items)
  BY <1>1, <1>2, TypeParts DEF IInv, TableOK, PostsOK, AnswersSound, Uncut
<1>4. a.items \in Seq(Items) /\ a.len \in Nat
  BY <1>3 DEF Answers
<1>5. Sound(new, a)
  BY <1>1, <1>3, CopyKeeps
<1>6. \A k \in 1 .. a.len : ItemOf(tab, a, k) \in Items /\ ItemOf(new, a, k) \in Items
  BY <1>3, <1>4, <1>5, SoundItems
<1>7. a.len <= Len(order) /\ (a.array # {} => order # <<>> /\ a.array = {order[1]})
  BY <1>3 DEF Promised
<1>8. \A k \in 1 .. a.len : /\ ItemOf(new, a, k).of = ItemOf(tab, a, k).of
                            /\ ItemOf(tab, a, k).limit <= ItemOf(new, a, k).limit
  BY <1>1, <1>3, <1>7, CopyInOrder
<1>9. Len(order) <= Len(order)
  BY <1>3
<1>10. Promised(new, order, a, encoded, items)
  BY <1>3, <1>4, <1>6, <1>8, <1>9, PromiseKept
<1> QED  BY <1>1, <1>2, <1>10

LEMMA CopyAsideStep ==
  ASSUME IInv, CopyAside
  PROVE  IInv'
<1>1. /\ CurMemLimits' = Appended
      /\ UNCHANGED <<limit, CurMemLimitOrder, pc, answer, out, floor, basis, cuts, restarts>>
  BY DEF CopyAside, answerVars, boundVars
<1>2. PostsOK /\ AnswersSound
  BY TypeParts DEF IInv
<1>3. TypeOK' /\ NotAhead'
  <2>1. TableOK' /\ CountsOK' /\ NotAhead'
    BY <1>1, CopyStep
  <2>2. PostsOK'
    BY <1>1, <1>2 DEF PostsOK
  <2> QED  BY <2>1, <2>2, TypeParts
<1>4. AnswersSound'
  <2> SUFFICES ASSUME NEW s \in Servers PROVE Sound(CurMemLimits', answer[s])
    BY <1>1, <1>2 DEF AnswersSound
  <2>1. answer[s] \in Answers /\ Sound(CurMemLimits, answer[s])
    BY <1>2 DEF PostsOK, AnswersSound
  <2> QED  BY <1>1, <2>1, CopyKeeps
<1>5. Uncut'
  <2>1. cuts = 0 => InOrder(CurMemLimits', CurMemLimitOrder')
    BY <1>1, CopyInOrder
  <2>2. \A s \in Servers : cuts = 0 /\ pc[s] = "encode" =>
          Promised(CurMemLimits', CurMemLimitOrder', answer[s], out[s], floor[s])
    BY <1>1, CopyPromise
  <2> QED  BY <1>1, <2>1, <2>2 DEF Uncut
<1> QED  BY <1>3, <1>4, <1>5 DEF IInv

(* The answer to new measurements promises all that is in the table. *)
LEMMA NewPromise ==
  ASSUME IInv, cuts = 0, NEW b, b = CopyMemStat
  PROVE  Promised(Appended, CurMemLimitOrder, b, <<>>, ToSet(All))
<1>1. PICK new, order : new = Appended /\ order = CurMemLimitOrder
  OBVIOUS
<1>2. /\ b.len = Len(All) /\ (b.array # {} => Entries # <<>> /\ b.array = {Entries[1]})
      /\ \A k \in 1 .. b.len : ItemOf(new, b, k) = All[k]
  BY <1>1, CopyIs
<1>3. TypeOK /\ order \in Seq(Controllers) /\ \A k \in DOMAIN order : CurMemLimits[order[k]] # <<>>
  BY <1>1 DEF IInv, TypeOK, Uncut, InOrder
<1>4. /\ Entries = order /\ Len(All) = Len(order) /\ All \in Seq(Items) /\ Len(order) \in Nat
      /\ \A k \in 1 .. Len(order) : All[k] = CurMemLimits[order[k]][1]
  BY <1>1, <1>3, EntriesAre
<1>5. \A k \in 1 .. Len(order) : All[k].of = order[k] /\ All[k].limit \in Int
  <2>1. \A k \in 1 .. Len(order) : CurMemLimits[order[k]][1].of = order[k] /\ All[k] \in Items
    <3> SUFFICES ASSUME NEW k \in 1 .. Len(order)
                 PROVE  CurMemLimits[order[k]][1].of = order[k] /\ All[k] \in Items
      OBVIOUS
    <3>1. order[k] \in Controllers /\ CurMemLimits[order[k]] # <<>>
      BY <1>3
    <3>2. CurMemLimits[order[k]][1].of = order[k]
      BY <1>3, <3>1 DEF TypeOK
    <3>3. All[k] \in Items
      BY <1>4
    <3> QED  BY <3>2, <3>3
  <2> QED  BY <1>4, <2>1, BoundsAssumption DEF Items
<1>6. ASSUME NEW item \in ToSet(All)
      PROVE  \E k \in 1 .. b.len : item.of = order[k] /\ item.limit <= ItemOf(new, b, k).limit
  <2>1. PICK k \in 1 .. Len(All) : item = All[k]
    BY <1>4 DEF ToSet
  <2> QED  BY <1>2, <1>4, <1>5, <2>1
<1>7. \A k \in 1 .. b.len : ItemOf(new, b, k).of = order[k] /\ ~(k <= Len(<<>>))
  BY <1>2, <1>4, <1>5
<1> QED  BY <1>1, <1>2, <1>4, <1>6, <1>7 DEF Promised

LEMMA PutStatsStep ==
  ASSUME IInv, NEW s \in Servers, PutStats(s)
  PROVE  IInv'
<1>0. PICK new, b, items : new = Appended /\ b = CopyMemStat /\ items = ToSet(All)
  OBVIOUS
<1>1. /\ CurMemLimits' = Appended
      /\ UNCHANGED <<limit, CurMemLimitOrder, out, basis, cuts, restarts>>
      /\ pc[s] = "measure" /\ pc' = [pc EXCEPT ![s] = "encode"]
      /\ answer' = [answer EXCEPT ![s] = b] /\ floor' = [floor EXCEPT ![s] = items]
  BY <1>0 DEF PutStats, boundVars
<1>2. TypeOK /\ PostsOK /\ AnswersSound
  BY TypeParts DEF IInv
<1>3. b \in Answers /\ Sound(new, b) /\ b.len = Len(All) /\ items \in SUBSET Items
  <2>1. All \in Seq(Items)
    BY <1>2, EntriesAre
  <2>2. items \in SUBSET Items
    BY <1>0, <2>1 DEF ToSet
  <2> QED  BY <1>0, <2>2, CopyIs
<1>4. TypeOK' /\ NotAhead'
  <2>1. TableOK' /\ CountsOK' /\ NotAhead'
    BY <1>1, CopyStep
  <2>2. PostsOK'
    BY <1>1, <1>2, <1>3 DEF PostsOK
  <2> QED  BY <2>1, <2>2, TypeParts
<1>5. ASSUME NEW t \in Servers
      PROVE  /\ t = s => answer'[t] = b /\ floor'[t] = items /\ pc'[t] = "encode" /\ out[t] = <<>>
             /\ t # s => answer'[t] = answer[t] /\ floor'[t] = floor[t] /\ pc'[t] = pc[t]
  BY <1>1, <1>2 DEF PostsOK, AnswersSound
<1>6. AnswersSound'
  <2> SUFFICES ASSUME NEW t \in Servers
               PROVE  /\ Sound(new, answer'[t]) /\ Len(out[t]) <= answer'[t].len
                      /\ pc'[t] = "measure" => out[t] = <<>>
    BY <1>0, <1>1 DEF AnswersSound
  <2>1. CASE t = s
    <3>1. Len(All) \in Nat
      BY <1>2, EntriesAre
    <3> QED  BY <1>3, <1>5, <2>1, <3>1
  <2>2. CASE t # s
    <3>1. answer[t] \in Answers /\ Sound(CurMemLimits, answer[t])
      BY <1>2 DEF PostsOK, AnswersSound
    <3>2. Sound(new, answer[t])
      BY <1>0, <3>1, CopyKeeps
    <3> QED  BY <1>2, <1>5, <2>2, <3>2 DEF AnswersSound
  <2> QED  BY <2>1, <2>2
<1>7. Uncut'
  <2>1. cuts = 0 => InOrder(CurMemLimits', CurMemLimitOrder')
    BY <1>1, CopyInOrder
  <2>2. ASSUME NEW t \in Servers, cuts = 0, pc'[t] = "encode"
        PROVE  Promised(CurMemLimits', CurMemLimitOrder', answer'[t], out'[t], floor'[t])
    <3>1. CASE t = s
      <4>1. Promised(Appended, CurMemLimitOrder, b, <<>>, ToSet(All))
        BY <1>0, <2>2, NewPromise
      <4>2. out'[t] = <<>> /\ answer'[t] = b /\ floor'[t] = ToSet(All)
        BY <1>0, <1>1, <1>5, <3>1
      <4> QED  BY <1>1, <4>1, <4>2
    <3>2. CASE t # s
      <4>1. pc[t] = "encode" /\ answer'[t] = answer[t] /\ floor'[t] = floor[t] /\ out'[t] = out[t]
        BY <1>1, <1>5, <2>2, <3>2
      <4>2. Promised(CurMemLimits', CurMemLimitOrder', answer[t], out[t], floor[t])
        BY <1>1, <2>2, <4>1, CopyPromise
      <4> QED  BY <4>1, <4>2
    <3> QED  BY <3>1, <3>2
  <2> QED  BY <1>1, <2>1, <2>2 DEF Uncut
<1> QED  BY <1>4, <1>6, <1>7 DEF IInv
-----------------------------------------------------------------------------
LEMMA EncodeStep ==
  ASSUME IInv, NEW s \in Servers, Encode(s)
  PROVE  IInv'
<1>0. PICK a, encoded, k, item :
        /\ a = answer[s] /\ encoded = out[s] /\ k = Len(encoded) + 1
        /\ item = ItemOf(CurMemLimits, a, k)
  OBVIOUS
<1>1. UNCHANGED <<limit, CurMemLimits, CurMemLimitOrder, pc, answer, floor, basis, cuts, restarts>>
  BY DEF Encode, tableVars, boundVars
<1>2. TableOK /\ PostsOK /\ CountsOK /\ AnswersSound /\ NotAhead
  BY TypeParts DEF IInv
<1>3. /\ a \in Answers /\ a.items \in Seq(Items) /\ a.len \in Nat /\ Sound(CurMemLimits, a)
      /\ encoded \in Seq(Items) /\ Len(encoded) \in Nat
  BY <1>0, <1>2 DEF PostsOK, AnswersSound, Answers
<1>4. Len(encoded) < a.len /\ k \in 1 .. a.len
  BY <1>0, <1>3 DEF Encode
<1>5. item \in Items
  BY <1>0, <1>3, <1>4, SoundItems
<1>6. out' = [out EXCEPT ![s] = Append(encoded, item)]
  BY <1>0 DEF Encode, Item, ItemOf
<1>7. PICK more : more = Append(encoded, item)
  OBVIOUS
<1>8. /\ more \in Seq(Items) /\ Len(more) = Len(encoded) + 1 /\ more[k] = item
      /\ \A j \in 1 .. Len(encoded) : more[j] = encoded[j]
  BY <1>0, <1>3, <1>5, <1>7
<1>9. \A t \in Servers : out'[t] = IF t = s THEN more ELSE out[t]
  BY <1>2, <1>6, <1>7 DEF PostsOK
<1>10. TypeOK'
  <2>1. out' \in [Servers -> Seq(Items)]
    BY <1>2, <1>6, <1>7, <1>8 DEF PostsOK
  <2>2. PostsOK'
    BY <1>1, <1>2, <2>1 DEF PostsOK
  <2>3. TableOK' /\ CountsOK'
    BY <1>1, <1>2 DEF TableOK, CountsOK, Registered
  <2> QED  BY <2>2, <2>3, TypeParts
<1>11. NotAhead'
  BY <1>1, <1>2 DEF NotAhead
<1>12. AnswersSound'
  <2>1. pc[s] = "encode" /\ Len(more) <= a.len
    BY <1>3, <1>4, <1>8 DEF Encode
  <2> SUFFICES ASSUME NEW t \in Servers
               PROVE  /\ Sound(CurMemLimits, answer[t]) /\ Len(out'[t]) <= answer[t].len
                      /\ pc[t] = "measure" => out'[t] = <<>>
    BY <1>1 DEF AnswersSound
  <2> QED  BY <1>0, <1>2, <1>9, <2>1 DEF AnswersSound
<1>13. Uncut'
  <2> SUFFICES ASSUME cuts = 0, NEW t \in Servers, pc[t] = "encode"
               PROVE  Promised(CurMemLimits, CurMemLimitOrder, answer[t], out'[t], floor[t])
    BY <1>1 DEF IInv, Uncut
  <2>1. Promised(CurMemLimits, CurMemLimitOrder, answer[t], out[t], floor[t])
    BY DEF IInv, Uncut
  <2>2. CASE t # s
    BY <1>9, <2>1, <2>2
  <2>3. CASE t = s
    <3>1. PICK tab, order, items : tab = CurMemLimits /\ order = CurMemLimitOrder /\ items = floor[s]
      OBVIOUS
    <3>2. Promised(tab, order, a, encoded, items)
      BY <1>0, <2>1, <2>3, <3>1
    <3>3. item.of = order[k]
      BY <1>0, <1>4, <3>1, <3>2 DEF Promised
    <3>4. \A j \in 1 .. Len(more) : more[j].of = order[j]
      <4> SUFFICES ASSUME NEW j \in 1 .. Len(more) PROVE more[j].of = order[j]
        OBVIOUS
      <4>1. j = k \/ j \in 1 .. Len(encoded)
        BY <1>0, <1>3, <1>8
      <4> QED  BY <1>8, <3>2, <3>3, <4>1 DEF Promised
    <3>5. ASSUME NEW i \in items
          PROVE  \E j \in 1 .. a.len :
                   /\ i.of = order[j] /\ i.limit <= ItemOf(tab, a, j).limit
                   /\ j <= Len(more) => i.limit <= more[j].limit
      <4>1. PICK j \in 1 .. a.len :
              /\ i.of = order[j] /\ i.limit <= ItemOf(tab, a, j).limit
              /\ j <= Len(encoded) => i.limit <= encoded[j].limit
        BY <3>2 DEF Promised
      <4>2. CASE j <= Len(encoded)
        BY <1>3, <1>8, <4>1, <4>2
      <4>3. CASE j = k
        BY <1>0, <1>8, <3>1, <4>1, <4>3
      <4>4. CASE ~(j <= Len(encoded)) /\ j # k
        BY <1>0, <1>3, <1>8, <4>1, <4>4
      <4> QED  BY <4>2, <4>3, <4>4
    <3>6. Promised(tab, order, a, more, items)
      BY <3>2, <3>4, <3>5 DEF Promised
    <3> QED  BY <1>0, <1>9, <2>3, <3>1, <3>6
  <2> QED  BY <2>2, <2>3
<1> QED  BY <1>10, <1>11, <1>12, <1>13 DEF IInv

(* The end of a post, whether the answer was read or not. *)
LEMMA EndPostStep ==
  ASSUME IInv, NEW s \in Servers, EndPost(s), basis' \in [Servers -> Seq(Items)],
         UNCHANGED <<limit, CurMemLimits, CurMemLimitOrder, cuts, restarts>>
  PROVE  IInv'
<1>1. TableOK /\ PostsOK /\ CountsOK /\ AnswersSound /\ NotAhead
  BY TypeParts DEF IInv
<1>2. <<>> \in Seq(Items) /\ Len(<<>>) = 0
  OBVIOUS
<1>3. PICK a : a = Slice(<<>>)
  OBVIOUS
<1>4. a \in Answers /\ Sound(CurMemLimits, a) /\ a.len = 0
  BY <1>2, <1>3 DEF Slice, Answers, Sound
<1>5. /\ pc' = [pc EXCEPT ![s] = "measure"] /\ out' = [out EXCEPT ![s] = <<>>]
      /\ floor' = [floor EXCEPT ![s] = {}] /\ answer' = [answer EXCEPT ![s] = a]
  BY <1>3 DEF EndPost
<1>6. PostsOK'
  BY <1>1, <1>2, <1>4, <1>5 DEF PostsOK
<1>7. TypeOK' /\ NotAhead'
  <2>1. TableOK' /\ CountsOK' /\ NotAhead'
    BY <1>1 DEF TableOK, CountsOK, Registered, NotAhead
  <2> QED  BY <1>6, <2>1, TypeParts
<1>8. ASSUME NEW t \in Servers
      PROVE  /\ t = s => pc'[t] = "measure" /\ out'[t] = <<>> /\ answer'[t] = a
             /\ t # s => /\ pc'[t] = pc[t] /\ out'[t] = out[t] /\ answer'[t] = answer[t]
                         /\ floor'[t] = floor[t]
  BY <1>1, <1>5 DEF PostsOK
<1>9. AnswersSound'
  <2> SUFFICES ASSUME NEW t \in Servers
               PROVE  /\ Sound(CurMemLimits, answer'[t]) /\ Len(out'[t]) <= answer'[t].len
                      /\ pc'[t] = "measure" => out'[t] = <<>>
    BY DEF AnswersSound
  <2> QED  BY <1>1, <1>2, <1>4, <1>8 DEF AnswersSound
<1>10. Uncut'
  <2> SUFFICES ASSUME cuts = 0
               PROVE  \A t \in Servers : pc'[t] = "encode" =>
                        Promised(CurMemLimits, CurMemLimitOrder, answer'[t], out'[t], floor'[t])
    BY DEF IInv, Uncut
  <2> QED  BY <1>8 DEF IInv, Uncut
<1> QED  BY <1>7, <1>9, <1>10 DEF IInv

LEMMA RestartStep ==
  ASSUME IInv, Restart
  PROVE  IInv'
<1>1. TableOK /\ PostsOK /\ CountsOK
  BY TypeParts DEF IInv
<1>2. <<>> \in Seq(Items) /\ <<>> \in Seq(Controllers) /\ Len(<<>>) = 0
  OBVIOUS
<1> USE DEF Restart
<1>3. TableOK'
  BY <1>2 DEF TableOK, Arrays, IsInjective
<1>4. PostsOK'
  BY <1>1, <1>2 DEF PostsOK, Slice, Answers
<1>5. CountsOK'
  BY <1>1, BoundsAssumption DEF CountsOK
<1>6. AnswersSound'
  BY <1>2 DEF AnswersSound, Sound, Slice
<1>7. NotAhead'
  BY DEF NotAhead
<1>8. Uncut'
  BY <1>2 DEF Uncut, InOrder
<1>9. TypeOK'
  BY <1>3, <1>4, <1>5, TypeParts
<1> QED  BY <1>6, <1>7, <1>8, <1>9 DEF IInv

LEMMA InvariantStep == IInv /\ [Next]_vars => IInv'
<1> SUFFICES ASSUME IInv, [Next]_vars PROVE IInv'
  OBVIOUS
<1>1. ASSUME NEW c \in Controllers, ChangeLimit(c) \/ PutMem(c) \/ PutMemCut(c) PROVE IInv'
  BY <1>1, ChangeLimitStep, PutMemStep, PutMemCutStep
<1>2. CASE CopyAside
  BY <1>2, CopyAsideStep
<1>3. ASSUME NEW s \in Servers, PutStats(s) \/ Encode(s) PROVE IInv'
  BY <1>3, PutStatsStep, EncodeStep
<1>4. ASSUME NEW s \in Servers, SetCapacities(s) PROVE IInv'
  <2>1. out[s] \in Seq(Items) /\ basis \in [Servers -> Seq(Items)]
    BY TypeParts DEF IInv, PostsOK
  <2>2. basis' \in [Servers -> Seq(Items)]
    BY <1>4, <2>1 DEF SetCapacities
  <2> QED  BY <1>4, <2>2, EndPostStep DEF SetCapacities, tableVars, boundVars
<1>5. ASSUME NEW s \in Servers, PutStatsFails(s) PROVE IInv'
  <2>1. basis' \in [Servers -> Seq(Items)]
    BY <1>5, TypeParts DEF IInv, PostsOK, PutStatsFails
  <2> QED  BY <1>5, <2>1, EndPostStep DEF PutStatsFails, tableVars, boundVars
<1>6. CASE Restart
  BY <1>6, RestartStep
<1>7. CASE UNCHANGED vars
  <2>1. UNCHANGED <<limit, CurMemLimits, CurMemLimitOrder, pc, answer, out, floor, basis, cuts, restarts>>
    BY <1>7 DEF vars, tableVars, answerVars, boundVars
  <2>2. TypeOK'
    BY <2>1 DEF IInv, TypeOK, Registered
  <2>3. AnswersSound' /\ NotAhead' /\ Uncut'
    BY <2>1 DEF IInv, AnswersSound, NotAhead, Uncut
  <2> QED  BY <2>2, <2>3 DEF IInv
<1> QED  BY <1>1, <1>2, <1>3, <1>4, <1>5, <1>6, <1>7 DEF Next
-----------------------------------------------------------------------------
(* IInv holds in every reachable state. *)
THEOREM Invariant == Safety => []IInv
BY InitIInv, InvariantStep, PTL DEF Safety

(* The variables keep their types: no copy makes an array longer than it   *)
(* is or puts the limits of one controller into the place of another.      *)
THEOREM TypeCorrect == Safety => []TypeOK
<1>1. IInv => TypeOK
  BY DEF IInv
<1> QED  BY <1>1, Invariant, PTL

(* An answer that is encoded without the lock, while others are copied     *)
(* into its array, has the limits of every controller that had any, once   *)
(* each, and none older than when it was copied: for any number of         *)
(* controllers and application servers and any room in the arrays.         *)
THEOREM AnswersWhole == Safety => []AnswerWhole
<1>1. ASSUME IInv PROVE AnswerWhole
  <2> SUFFICES ASSUME cuts = 0, NEW s \in Servers, pc[s] = "encode", Len(out[s]) = answer[s].len
               PROVE  /\ \A item \in floor[s] : \E k \in DOMAIN out[s] :
                           out[s][k].of = item.of /\ out[s][k].limit >= item.limit
                      /\ \A j, k \in DOMAIN out[s] : out[s][j].of = out[s][k].of => j = k
    BY DEF AnswerWhole
  <2>1. TableOK /\ PostsOK
    BY <1>1, TypeParts DEF IInv
  <2>2. PICK order, a, encoded, items :
          /\ order = CurMemLimitOrder /\ a = answer[s] /\ encoded = out[s] /\ items = floor[s]
    OBVIOUS
  <2>3. Promised(CurMemLimits, order, a, encoded, items) /\ Len(encoded) = a.len
    BY <1>1, <2>2 DEF IInv, Uncut
  <2>4. /\ encoded \in Seq(Items) /\ DOMAIN encoded = 1 .. Len(encoded) /\ items \in SUBSET Items
        /\ order \in Seq(Controllers) /\ Len(order) \in Nat /\ Len(encoded) \in Nat
        /\ \A i, j \in 1 .. Len(order) : order[i] = order[j] => i = j
    BY <2>1, <2>2 DEF TableOK, PostsOK, IsInjective
  <2>5. ASSUME NEW item \in items
        PROVE  \E k \in 1 .. Len(encoded) : encoded[k].of = item.of /\ encoded[k].limit >= item.limit
    <3>1. PICK k \in 1 .. Len(encoded) : item.of = order[k] /\ item.limit <= encoded[k].limit
      BY <2>3, <2>4 DEF Promised
    <3>2. encoded[k].of = order[k]
      BY <2>3 DEF Promised
    <3>3. item.limit \in Int /\ encoded[k].limit \in Int
      <4>1. item \in Items /\ encoded[k] \in Items
        BY <2>4
      <4> QED  BY <4>1, BoundsAssumption DEF Items
    <3> QED  BY <3>1, <3>2, <3>3
  <2>6. \A j, k \in 1 .. Len(encoded) : encoded[j].of = encoded[k].of => j = k
    <3>1. \A k \in 1 .. Len(encoded) : encoded[k].of = order[k] /\ k \in 1 .. Len(order)
      BY <2>3, <2>4 DEF Promised
    <3> QED  BY <2>4, <3>1
  <2> QED  BY <2>2, <2>4, <2>5, <2>6
<1> QED  BY <1>1, Invariant, PTL
=============================================================================

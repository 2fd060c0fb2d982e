---------------------------- MODULE SumTheorems -----------------------------
(***************************************************************************)
(* What the proofs about the sums of Controller and Backends need: the sum *)
(* of a function on a finite set depends neither on the order of the       *)
(* summands nor on anything but their values.  The sums of the community   *)
(* modules are recursive functions over the subsets of a set; induction is *)
(* stated with sets in the place of predicates, so that no lemma has an    *)
(* operator for a parameter.                                               *)
(***************************************************************************)
EXTENDS Integers, Functions, FiniteSetTheorems, TLAPS

(* A collection of subsets of a finite set has a minimal member. *)
LEMMA MinimalSet ==
  ASSUME NEW K, IsFiniteSet(K), NEW C \in SUBSET (SUBSET K), C # {}
  PROVE  \E S \in C : \A T \in C : T \subseteq S => T = S
<1>1. IsWellFoundedOn(StrictSubsetOrdering(K), FiniteSubsetsOf(K))
  BY FS_StrictSubsetOrderingWellFounded
<1>2. FiniteSubsetsOf(K) = SUBSET K
  BY FS_FiniteSubsetsOfFinite
<1>3. PICK S \in C : \A T \in C : <<T, S>> \notin StrictSubsetOrdering(K)
  BY <1>1, <1>2, WFMin
<1> QED  BY <1>3 DEF StrictSubsetOrdering

(* Induction over the subsets of a finite set. *)
LEMMA SetInduction ==
  ASSUME NEW K, IsFiniteSet(K), NEW G, {} \in G,
         \A S \in SUBSET K : \A x \in K \ S : S \in G => S \cup {x} \in G
  PROVE  SUBSET K \subseteq G
<1> DEFINE C == (SUBSET K) \ G
<1> SUFFICES ASSUME C # {} PROVE FALSE
  OBVIOUS
<1>1. C \in SUBSET (SUBSET K)
  OBVIOUS
<1>2. PICK S \in C : \A T \in C : T \subseteq S => T = S
  <2> HIDE DEF C
  <2> QED  BY <1>1, MinimalSet
<1>3. PICK x : x \in S
  BY <1>2
<1>4. S \ {x} \in SUBSET K /\ x \in K \ (S \ {x}) /\ (S \ {x}) \cup {x} = S
  BY <1>2, <1>3
<1>5. S \ {x} \in G
  BY <1>2, <1>3, <1>4
<1>6. S \in G
  BY <1>4, <1>5
<1> QED  BY <1>2, <1>6

(* Induction over the natural numbers, by the size of a set. *)
LEMMA NatInductionOnSet ==
  ASSUME NEW G, 0 \in G, \A n \in Nat : n \in G => n + 1 \in G
  PROVE  Nat \subseteq G
<1> SUFFICES ASSUME NEW k \in Nat PROVE k \in G
  OBVIOUS
<1>0. PICK K : K = 1 .. k
  OBVIOUS
<1> DEFINE H == {S \in SUBSET K : Cardinality(S) \in G}
<1>1. IsFiniteSet(K) /\ Cardinality(K) = k
  BY <1>0, FS_Interval
<1>2. {} \in H
  BY FS_EmptySet
<1>3. \A S \in SUBSET K : \A x \in K \ S : S \in H => S \cup {x} \in H
  <2> SUFFICES ASSUME NEW S \in SUBSET K, NEW x \in K \ S, S \in H PROVE S \cup {x} \in H
    OBVIOUS
  <2>1. IsFiniteSet(S) /\ Cardinality(S) \in Nat /\ Cardinality(S \cup {x}) = Cardinality(S) + 1
    BY <1>1, FS_Subset, FS_AddElement, FS_CardinalityType
  <2> QED  BY <2>1
<1>4. SUBSET K \subseteq H
  <2> HIDE DEF H
  <2> QED  BY <1>1, <1>2, <1>3, SetInduction
<1> QED  BY <1>1, <1>4
-----------------------------------------------------------------------------
Chosen(s) == CHOOSE x \in s : TRUE

(* g holds the sums of f on the subsets of S. *)
HoldsSums(g, f, S) ==
  g = [s \in SUBSET S |-> IF s = {} THEN 0 ELSE f[Chosen(s)] + g[s \ {Chosen(s)}]]

LEMMA SumIsChosen ==
  ASSUME NEW f, NEW S
  PROVE  SumFunctionOnSet(f, S) = (CHOOSE g : HoldsSums(g, f, S))[S]
BY DEF SumFunctionOnSet, FoldFunctionOnSet, MapThenFoldSet, HoldsSums, Chosen

(* There are such functions, by induction over the size of the subsets. *)
LEMMA SumsExist ==
  ASSUME NEW f, NEW S, IsFiniteSet(S)
  PROVE  \E g : HoldsSums(g, f, S)
<1> DEFINE Small(n) == {s \in SUBSET S : Cardinality(s) <= n}
           Holds(g, n) == /\ g = [s \in Small(n) |-> g[s]]
                          /\ \A s \in Small(n) : g[s] = IF s = {} THEN 0 ELSE f[Chosen(s)] + g[s \ {Chosen(s)}]
           G == {n \in Nat : \E g : Holds(g, n)}
<1>0. ASSUME NEW s \in SUBSET S
      PROVE  /\ IsFiniteSet(s) /\ Cardinality(s) \in Nat /\ (Cardinality(s) = 0 <=> s = {})
             /\ s # {} => /\ Chosen(s) \in s
                          /\ s \ {Chosen(s)} \in SUBSET S
                          /\ Cardinality(s \ {Chosen(s)}) = Cardinality(s) - 1
  <2>1. IsFiniteSet(s)
    BY FS_Subset
  <2>2. s # {} => Chosen(s) \in s
    BY DEF Chosen
  <2> QED  BY <2>1, <2>2, FS_CardinalityType, FS_EmptySet, FS_RemoveElement
<1>1. 0 \in G
  <2> DEFINE g == [s \in Small(0) |-> 0]
  <2>1. ASSUME NEW s \in Small(0) PROVE s = {}
    <3>1. s \in SUBSET S /\ Cardinality(s) <= 0
      OBVIOUS
    <3>2. Cardinality(s) \in Nat /\ (Cardinality(s) = 0 <=> s = {})
      BY <1>0, <3>1
    <3> QED  BY <3>1, <3>2
  <2>2. Holds(g, 0)
    BY <2>1
  <2> QED  BY <2>2
<1>2. ASSUME NEW n \in Nat, n \in G PROVE n + 1 \in G
  <2>1. PICK g : Holds(g, n)
    BY <1>2
  <2> HIDE DEF Holds
  <2> DEFINE h == [s \in Small(n + 1) |->
                     IF s = {} THEN 0 ELSE f[Chosen(s)] + g[s \ {Chosen(s)}]]
  <2>2. ASSUME NEW s \in Small(n) PROVE s \in Small(n + 1) /\ h[s] = g[s]
    <3>1. s \in Small(n + 1)
      <4>1. s \in SUBSET S /\ Cardinality(s) <= n
        OBVIOUS
      <4>2. Cardinality(s) \in Nat
        BY <1>0, <4>1
      <4> QED  BY <4>1, <4>2
    <3>2. g[s] = IF s = {} THEN 0 ELSE f[Chosen(s)] + g[s \ {Chosen(s)}]
      BY <2>1 DEF Holds
    <3> QED  BY <3>1, <3>2
  <2>3. \A s \in Small(n + 1) : s # {} => s \ {Chosen(s)} \in Small(n)
    BY <1>0
  <2>4. Holds(h, n + 1)
    <3>1. \A s \in Small(n + 1) : s # {} => h[s \ {Chosen(s)}] = g[s \ {Chosen(s)}]
      BY <2>2, <2>3
    <3>2. h = [s \in Small(n + 1) |-> h[s]]
      OBVIOUS
    <3>3. \A s \in Small(n + 1) : h[s] = IF s = {} THEN 0 ELSE f[Chosen(s)] + h[s \ {Chosen(s)}]
      BY <3>1
    <3> HIDE DEF h, Small
    <3> QED  BY <3>2, <3>3 DEF Holds
  <2> QED  BY <2>4
<1>3. Cardinality(S) \in G
  <2> HIDE DEF G
  <2>1. Cardinality(S) \in Nat
    BY FS_CardinalityType
  <2> QED  BY <1>1, <1>2, <2>1, NatInductionOnSet
<1>4. Small(Cardinality(S)) = SUBSET S
  BY FS_Subset
<1>5. PICK g : Holds(g, Cardinality(S))
  BY <1>3
<1>6. g = [s \in SUBSET S |-> IF s = {} THEN 0 ELSE f[Chosen(s)] + g[s \ {Chosen(s)}]]
  BY <1>4, <1>5
<1> QED  BY <1>6 DEF HoldsSums

(* Any two of them agree on the subsets they share. *)
LEMMA SumsAgree ==
  ASSUME NEW f, NEW S, NEW T \in SUBSET S, IsFiniteSet(S),
         NEW g, HoldsSums(g, f, S), NEW h, HoldsSums(h, f, T)
  PROVE  g[T] = h[T]
<1> DEFINE C == {s \in SUBSET T : g[s] # h[s]}
<1> SUFFICES ASSUME C # {} PROVE FALSE
  OBVIOUS
<1>1. IsFiniteSet(T)
  BY FS_Subset
<1>2. PICK s \in C : \A t \in C : t \subseteq s => t = s
  <2>1. C \in SUBSET (SUBSET T)
    OBVIOUS
  <2> HIDE DEF C
  <2> QED  BY <1>1, <2>1, MinimalSet
<1>3. g[s] = IF s = {} THEN 0 ELSE f[Chosen(s)] + g[s \ {Chosen(s)}]
  BY DEF HoldsSums
<1>4. h[s] = IF s = {} THEN 0 ELSE f[Chosen(s)] + h[s \ {Chosen(s)}]
  BY DEF HoldsSums
<1>5. s # {} => Chosen(s) \in s
  BY DEF Chosen
<1>6. s # {} => g[s \ {Chosen(s)}] = h[s \ {Chosen(s)}]
  BY <1>2, <1>5
<1> QED  BY <1>2, <1>3, <1>4, <1>6

(* The equation that defines the sum. *)
LEMMA SumEquation ==
  ASSUME NEW f, NEW S, IsFiniteSet(S)
  PROVE  SumFunctionOnSet(f, S) =
           IF S = {} THEN 0 ELSE f[Chosen(S)] + SumFunctionOnSet(f, S \ {Chosen(S)})
<1> DEFINE g == CHOOSE g : HoldsSums(g, f, S)
           R == S \ {Chosen(S)}
           h == CHOOSE h : HoldsSums(h, f, R)
<1>1. IsFiniteSet(R) /\ R \in SUBSET S
  BY FS_Subset
<1>2. HoldsSums(g, f, S)
  BY SumsExist
<1>3. HoldsSums(h, f, R)
  BY <1>1, SumsExist
<1>4. SumFunctionOnSet(f, S) = g[S] /\ SumFunctionOnSet(f, R) = h[R]
  BY SumIsChosen
<1> HIDE DEF g, h
<1>5. g[R] = h[R]
  BY <1>1, <1>2, <1>3, SumsAgree
<1>6. g[S] = IF S = {} THEN 0 ELSE f[Chosen(S)] + g[R]
  BY <1>2 DEF HoldsSums
<1> QED  BY <1>4, <1>5, <1>6
-----------------------------------------------------------------------------
(* The sum does not depend on the order: any summand may come first. *)
LEMMA SumRemove ==
  ASSUME NEW f, NEW S, IsFiniteSet(S), \A x \in S : f[x] \in Int
  PROVE  /\ SumFunctionOnSet(f, S) \in Int
         /\ S = {} => SumFunctionOnSet(f, S) = 0
         /\ \A y \in S : SumFunctionOnSet(f, S) = f[y] + SumFunctionOnSet(f, S \ {y})
<1> DEFINE Sum(T) == SumFunctionOnSet(f, T)
           Free(T) == Sum(T) \in Int /\ \A y \in T : Sum(T) = f[y] + Sum(T \ {y})
           C == {T \in SUBSET S : ~Free(T)}
<1>0. \A T \in SUBSET S :
        Sum(T) = IF T = {} THEN 0 ELSE f[Chosen(T)] + Sum(T \ {Chosen(T)})
  BY FS_Subset, SumEquation
<1>1. C = {}
  <2> SUFFICES ASSUME C # {} PROVE FALSE
    OBVIOUS
  <2>1. C \in SUBSET (SUBSET S)
    OBVIOUS
  <2>2. PICK T \in C : \A U \in C : U \subseteq T => U = T
    <3> HIDE DEF C
    <3> QED  BY <2>1, MinimalSet
  <2>3. T \in SUBSET S /\ ~Free(T)
    OBVIOUS
  <2>4. \A x \in T : T \ {x} \in SUBSET S /\ Free(T \ {x})
    BY <2>2, <2>3
  <2>5. CASE T = {}
    <3>1. Sum(T) = 0
      BY <2>5, FS_EmptySet, SumEquation
    <3> QED  BY <2>3, <2>5, <3>1
  <2>6. CASE T # {}
    <3> DEFINE c == Chosen(T)
    <3>1. c \in T
      BY <2>6 DEF Chosen
    <3>2. Sum(T) = f[c] + Sum(T \ {c})
      BY <1>0, <2>3, <2>6
    <3>3. f[c] \in Int /\ Sum(T \ {c}) \in Int
      BY <2>3, <2>4, <3>1
    <3>4. ASSUME NEW y \in T, y # c PROVE Sum(T) = f[y] + Sum(T \ {y})
      <4>1. Sum(T \ {c}) = f[y] + Sum((T \ {c}) \ {y})
        BY <2>4, <3>1, <3>4
      <4>2. Sum(T \ {y}) = f[c] + Sum((T \ {y}) \ {c})
        BY <2>4, <3>1, <3>4
      <4>3. (T \ {c}) \ {y} = (T \ {y}) \ {c}
        OBVIOUS
      <4>4. f[y] \in Int /\ Sum((T \ {c}) \ {y}) \in Int
        <5>1. (T \ {c}) \ {y} \in SUBSET S /\ (T \ {c}) \ {y} # T /\ (T \ {c}) \ {y} \subseteq T
          BY <2>3, <3>1
        <5>2. Free((T \ {c}) \ {y})
          BY <2>2, <5>1
        <5> QED  BY <2>3, <5>2
      <4>5. Sum((T \ {c}) \ {y}) = Sum((T \ {y}) \ {c})
        BY <4>3
      <4> HIDE DEF Sum, c
      <4> QED  BY <3>2, <3>3, <4>1, <4>2, <4>4, <4>5
    <3>5. Free(T)
      BY <3>2, <3>3, <3>4
    <3> QED  BY <2>3, <3>5
  <2> QED  BY <2>5, <2>6
<1>2. Free(S)
  BY <1>1
<1> QED  BY <1>0, <1>2

LEMMA SumInsert ==
  ASSUME NEW f, NEW S, IsFiniteSet(S), NEW y, y \notin S, \A x \in S \cup {y} : f[x] \in Int
  PROVE  SumFunctionOnSet(f, S \cup {y}) = f[y] + SumFunctionOnSet(f, S)
<1>1. IsFiniteSet(S \cup {y})
  BY FS_AddElement
<1>2. (S \cup {y}) \ {y} = S
  OBVIOUS
<1>3. SumFunctionOnSet(f, S \cup {y}) = f[y] + SumFunctionOnSet(f, (S \cup {y}) \ {y})
  BY <1>1, SumRemove
<1> QED  BY <1>2, <1>3

(* Sums are compared summand by summand. *)
LEMMA SumCompare ==
  ASSUME NEW f, NEW g, NEW S, IsFiniteSet(S),
         \A x \in S : f[x] \in Int /\ g[x] \in Int
  PROVE  /\ (\A x \in S : f[x] = g[x]) => SumFunctionOnSet(f, S) = SumFunctionOnSet(g, S)
         /\ (\A x \in S : f[x] <= g[x]) => SumFunctionOnSet(f, S) <= SumFunctionOnSet(g, S)
<1> DEFINE F(T) == SumFunctionOnSet(f, T)
           G(T) == SumFunctionOnSet(g, T)
           H == {T \in SUBSET S : (\A x \in T : f[x] <= g[x]) => F(T) <= G(T)}
           E == {T \in SUBSET S : (\A x \in T : f[x] = g[x]) => F(T) = G(T)}
<1>1. F({}) = 0 /\ G({}) = 0
  BY FS_EmptySet, SumEquation
<1>2. ASSUME NEW T \in SUBSET S, NEW x \in S \ T
      PROVE  /\ F(T \cup {x}) = f[x] + F(T) /\ G(T \cup {x}) = g[x] + G(T)
             /\ F(T) \in Int /\ G(T) \in Int
  <2>1. IsFiniteSet(T)
    BY FS_Subset
  <2> QED  BY <2>1, SumInsert, SumRemove
<1>3. {} \in H /\ {} \in E
  BY <1>1
<1>4. \A T \in SUBSET S : \A x \in S \ T : T \in H => T \cup {x} \in H
  <2> SUFFICES ASSUME NEW T \in SUBSET S, NEW x \in S \ T, T \in H,
                      \A y \in T \cup {x} : f[y] <= g[y]
               PROVE  F(T \cup {x}) <= G(T \cup {x})
    OBVIOUS
  <2>1. F(T) <= G(T) /\ f[x] <= g[x]
    OBVIOUS
  <2> HIDE DEF F, G, H
  <2> QED  BY <1>2, <2>1
<1>5. \A T \in SUBSET S : \A x \in S \ T : T \in E => T \cup {x} \in E
  <2> SUFFICES ASSUME NEW T \in SUBSET S, NEW x \in S \ T, T \in E,
                      \A y \in T \cup {x} : f[y] = g[y]
               PROVE  F(T \cup {x}) = G(T \cup {x})
    OBVIOUS
  <2>1. F(T) = G(T) /\ f[x] = g[x]
    OBVIOUS
  <2> HIDE DEF F, G, E
  <2> QED  BY <1>2, <2>1
<1>6. S \in H /\ S \in E
  <2> HIDE DEF H, E
  <2> QED  BY <1>3, <1>4, <1>5, SetInduction
<1> QED  BY <1>6

(* The sum of a sum of two functions. *)
LEMMA SumAdd ==
  ASSUME NEW f, NEW g, NEW h, NEW S, IsFiniteSet(S),
         \A x \in S : f[x] \in Int /\ g[x] \in Int /\ h[x] = f[x] + g[x]
  PROVE  SumFunctionOnSet(h, S) = SumFunctionOnSet(f, S) + SumFunctionOnSet(g, S)
<1> DEFINE F(T) == SumFunctionOnSet(f, T)
           G(T) == SumFunctionOnSet(g, T)
           H(T) == SumFunctionOnSet(h, T)
           E == {T \in SUBSET S : H(T) = F(T) + G(T)}
<1>1. F({}) = 0 /\ G({}) = 0 /\ H({}) = 0
  BY FS_EmptySet, SumEquation
<1>2. ASSUME NEW T \in SUBSET S, NEW x \in S \ T
      PROVE  /\ F(T \cup {x}) = f[x] + F(T) /\ G(T \cup {x}) = g[x] + G(T)
             /\ H(T \cup {x}) = h[x] + H(T)
             /\ F(T) \in Int /\ G(T) \in Int
  <2>1. IsFiniteSet(T)
    BY FS_Subset
  <2> QED  BY <2>1, SumInsert, SumRemove
<1>3. {} \in E
  BY <1>1
<1>4. \A T \in SUBSET S : \A x \in S \ T : T \in E => T \cup {x} \in E
  <2> SUFFICES ASSUME NEW T \in SUBSET S, NEW x \in S \ T, T \in E
               PROVE  H(T \cup {x}) = F(T \cup {x}) + G(T \cup {x})
    OBVIOUS
  <2>1. H(T) = F(T) + G(T)
    OBVIOUS
  <2>2. f[x] \in Int /\ g[x] \in Int /\ h[x] = f[x] + g[x]
    OBVIOUS
  <2> HIDE DEF F, G, H, E
  <2> QED  BY <1>2, <2>1, <2>2
<1>5. S \in E
  <2> HIDE DEF E
  <2> QED  BY <1>3, <1>4, SetInduction
<1> QED  BY <1>5

(* A change of one value changes the sum by as much. *)
LEMMA SumChange ==
  ASSUME NEW S, IsFiniteSet(S), NEW f \in [S -> Int], NEW g \in [S -> Int],
         NEW y \in S, \A x \in S : x # y => g[x] = f[x]
  PROVE  SumFunction(g) = SumFunction(f) - f[y] + g[y]
<1> DEFINE R == S \ {y}
<1>1. IsFiniteSet(R)
  BY FS_Subset
<1>2. SumFunctionOnSet(f, S) = f[y] + SumFunctionOnSet(f, R) /\ SumFunctionOnSet(f, R) \in Int
  BY <1>1, SumRemove
<1>3. SumFunctionOnSet(g, S) = g[y] + SumFunctionOnSet(g, R)
  BY SumRemove
<1>4. SumFunctionOnSet(g, R) = SumFunctionOnSet(f, R)
  BY <1>1, SumCompare
<1>5. SumFunction(f) = SumFunctionOnSet(f, S) /\ SumFunction(g) = SumFunctionOnSet(g, S)
  BY DEF SumFunction
<1>6. f[y] \in Int /\ g[y] \in Int
  OBVIOUS
<1> QED  BY <1>2, <1>3, <1>4, <1>5, <1>6

(* More summands that are not negative make no smaller sum. *)
LEMMA SumSubset ==
  ASSUME NEW f, NEW S, IsFiniteSet(S), NEW T \in SUBSET S,
         \A x \in S : f[x] \in Int, \A x \in S \ T : f[x] >= 0
  PROVE  SumFunctionOnSet(f, T) <= SumFunctionOnSet(f, S)
<1> DEFINE R == S \ T
           F(U) == SumFunctionOnSet(f, T \cup U)
           H == {U \in SUBSET R : F({}) <= F(U)}
<1>1. IsFiniteSet(R)
  BY FS_Subset
<1>2. ASSUME NEW U \in SUBSET R PROVE IsFiniteSet(T \cup U) /\ F(U) \in Int
  <2>1. T \cup U \in SUBSET S
    OBVIOUS
  <2>2. IsFiniteSet(T \cup U)
    BY <2>1, FS_Subset
  <2> QED  BY <2>1, <2>2, SumRemove
<1>3. ASSUME NEW U \in SUBSET R, NEW x \in R \ U PROVE F(U \cup {x}) = f[x] + F(U)
  <2>1. T \cup (U \cup {x}) = (T \cup U) \cup {x} /\ x \notin T \cup U
    OBVIOUS
  <2>2. IsFiniteSet(T \cup U) /\ \A z \in (T \cup U) \cup {x} : f[z] \in Int
    BY <1>2
  <2>3. SumFunctionOnSet(f, (T \cup U) \cup {x}) = f[x] + SumFunctionOnSet(f, T \cup U)
    BY <2>1, <2>2, SumInsert
  <2> QED  BY <2>1, <2>3
<1>4. {} \in H
  <2>1. {} \in SUBSET R
    OBVIOUS
  <2>2. F({}) \in Int
    BY <1>2, <2>1
  <2> HIDE DEF F, R
  <2> QED  BY <2>1, <2>2
<1>5. \A U \in SUBSET R : \A x \in R \ U : U \in H => U \cup {x} \in H
  <2> SUFFICES ASSUME NEW U \in SUBSET R, NEW x \in R \ U, F({}) <= F(U)
               PROVE  F({}) <= F(U \cup {x})
    OBVIOUS
  <2>1. f[x] \in Int /\ f[x] >= 0 /\ {} \in SUBSET R
    OBVIOUS
  <2>2. F({}) \in Int /\ F(U) \in Int /\ F(U \cup {x}) = f[x] + F(U)
    BY <1>2, <1>3, <2>1
  <2> HIDE DEF F, R
  <2> QED  BY <2>1, <2>2
<1>6. R \in H
  <2> HIDE DEF H, R
  <2> QED  BY <1>1, <1>4, <1>5, SetInduction
<1>7. T \cup {} = T /\ T \cup R = S
  OBVIOUS
<1> QED  BY <1>6, <1>7

(* The sum of a constant, and of a function that is nowhere negative. *)
LEMMA SumConstant ==
  ASSUME NEW c \in Int, NEW f, NEW S, IsFiniteSet(S), \A x \in S : f[x] = c
  PROVE  SumFunctionOnSet(f, S) = c * Cardinality(S)
<1> DEFINE F(T) == SumFunctionOnSet(f, T)
           E == {T \in SUBSET S : F(T) = c * Cardinality(T)}
<1>1. {} \in E
  <2>1. F({}) = 0 /\ Cardinality({}) = 0
    BY FS_EmptySet, SumEquation
  <2>2. c * 0 = 0
    OBVIOUS
  <2> QED  BY <2>1, <2>2
<1>2. \A T \in SUBSET S : \A x \in S \ T : T \in E => T \cup {x} \in E
  <2> SUFFICES ASSUME NEW T \in SUBSET S, NEW x \in S \ T, F(T) = c * Cardinality(T)
               PROVE  F(T \cup {x}) = c * Cardinality(T \cup {x})
    OBVIOUS
  <2>1. IsFiniteSet(T)
    BY FS_Subset
  <2>2. F(T \cup {x}) = c + F(T)
    BY <2>1, SumInsert
  <2>3. Cardinality(T) \in Nat /\ Cardinality(T \cup {x}) = Cardinality(T) + 1
    BY <2>1, FS_AddElement, FS_CardinalityType
  <2> HIDE DEF F
  <2> QED  BY <2>2, <2>3
<1>3. S \in E
  <2> HIDE DEF E
  <2> QED  BY <1>1, <1>2, SetInduction
<1> QED  BY <1>3

LEMMA SumNonNegative ==
  ASSUME NEW f, NEW S, IsFiniteSet(S), \A x \in S : f[x] \in Int /\ f[x] >= 0
  PROVE  /\ SumFunctionOnSet(f, S) \in Nat
         /\ \A y \in S : f[y] <= SumFunctionOnSet(f, S)
<1>1. ASSUME NEW T \in SUBSET S
      PROVE  IsFiniteSet(T) /\ SumFunctionOnSet(f, T) \in Int /\ SumFunctionOnSet(f, T) >= 0
  <2>1. IsFiniteSet(T) /\ {} \in SUBSET T
    BY FS_Subset
  <2>2. SumFunctionOnSet(f, {}) = 0 /\ SumFunctionOnSet(f, T) \in Int
    BY <2>1, FS_EmptySet, SumRemove
  <2>3. SumFunctionOnSet(f, {}) <= SumFunctionOnSet(f, T)
    BY <2>1, SumSubset
  <2> QED  BY <2>1, <2>2, <2>3
<1>2. ASSUME NEW y \in S PROVE f[y] <= SumFunctionOnSet(f, S)
  <2>1. SumFunctionOnSet(f, S) = f[y] + SumFunctionOnSet(f, S \ {y})
    BY SumRemove
  <2>2. SumFunctionOnSet(f, S \ {y}) \in Int /\ SumFunctionOnSet(f, S \ {y}) >= 0
    BY <1>1
  <2> QED  BY <2>1, <2>2
<1> QED  BY <1>1, <1>2

(* A common factor. *)
LEMMA SumScale ==
  ASSUME NEW c \in Int, NEW f, NEW g, NEW S, IsFiniteSet(S),
         \A x \in S : f[x] \in Int /\ g[x] = c * f[x]
  PROVE  SumFunctionOnSet(g, S) = c * SumFunctionOnSet(f, S)
<1> DEFINE F(T) == SumFunctionOnSet(f, T)
           G(T) == SumFunctionOnSet(g, T)
           E == {T \in SUBSET S : G(T) = c * F(T)}
<1>1. {} \in E
  <2>1. F({}) = 0 /\ G({}) = 0
    BY FS_EmptySet, SumEquation
  <2>2. c * 0 = 0
    OBVIOUS
  <2> QED  BY <2>1, <2>2
<1>2. \A T \in SUBSET S : \A x \in S \ T : T \in E => T \cup {x} \in E
  <2> SUFFICES ASSUME NEW T \in SUBSET S, NEW x \in S \ T, G(T) = c * F(T)
               PROVE  G(T \cup {x}) = c * F(T \cup {x})
    OBVIOUS
  <2>0. \A y \in S : f[y] \in Int /\ g[y] \in Int
    OBVIOUS
  <2>1. IsFiniteSet(T) /\ f[x] \in Int /\ g[x] = c * f[x]
    BY FS_Subset
  <2>2. /\ F(T \cup {x}) = f[x] + F(T) /\ F(T) \in Int
        /\ G(T \cup {x}) = g[x] + G(T)
    BY <2>0, <2>1, SumInsert, SumRemove
  <2> HIDE DEF F, G
  <2>3. G(T \cup {x}) = c * f[x] + c * F(T)
    BY <2>1, <2>2
  <2>4. c * f[x] + c * F(T) = c * (f[x] + F(T))
    BY <2>1, <2>2
  <2> QED  BY <2>2, <2>3, <2>4
<1>3. S \in E
  <2> HIDE DEF E
  <2> QED  BY <1>1, <1>2, SetInduction
<1> QED  BY <1>3
=============================================================================

--------------------------- MODULE Backends_proofs ---------------------------
(***************************************************************************)
(* Proofs about Backends, for any subsystems, pools and callers: that the  *)
(* clients of an fb subsystem are all in its channel or with one user      *)
(* each, that no database is used by more connections than it may, and     *)
(* that failed starts leak no more connections than there are descriptors. *)
(***************************************************************************)
EXTENDS Backends, SumTheorems

(* Nobody uses the backends before InitSubSystems has returned. *)
Quiet == ~Booted => \A u \in Users : pc[u] = "idle"

(* What is in the channel of the subsystem that is being started, and of   *)
(* those that have none.                                                   *)
Starting ==
  /\ \A d \in Names : Kind[d] = "mysql" => pool[d] = <<>>
  /\ \A i \in boot + 1 .. Len(Deps) : pool[Deps[i]] = <<>>
  /\ ~Booted /\ Kind[Deps[boot]] = "fb" =>
       IF step = "dial" THEN Len(pool[Deps[boot]]) < Clients ELSE Len(pool[Deps[boot]]) = Clients

(* A user that calls has a client of an fb subsystem. *)
Holding ==
  \A u \in Users : pc[u] \in {"call", "put"} => Kind[dep[u]] = "fb" /\ client[u] \in {"good", "broken"}

(* No client of a backend that is down works, wherever it is. *)
Dead ==
  \A d \in Names \ up :
    /\ \A i \in 1 .. Len(pool[d]) : pool[d][i] = "broken"
    /\ \A u \in On(d, {"call", "put"}) : client[u] = "broken"

(* Every connection was opened when there was a descriptor for it; one     *)
(* that was leaked or is in a channel still has it.                        *)
Budget ==
  /\ SumFunction(leaked) <= MaxFiles
  /\ ~Booted =>
       /\ Files <= MaxFiles
       /\ step = "set" /\ Kind[Deps[boot]] = "mysql" => Files < MaxFiles

IInv == TypeOK /\ Quiet /\ Starting /\ Holding /\ Dead /\ Budget /\ ClientsAccounted
-----------------------------------------------------------------------------
LEMMA NamesOfDeps ==
  /\ IsFiniteSet(Names) /\ Len(Deps) \in Nat \ {0}
  /\ \A i \in 1 .. Len(Deps) : Deps[i] \in Names
  /\ \A d \in Names : \E i \in 1 .. Len(Deps) : Deps[i] = d
  /\ \A i, j \in 1 .. Len(Deps) : Deps[i] = Deps[j] => i = j
<1>1. /\ Len(Deps) \in Nat \ {0} /\ DOMAIN Deps = 1 .. Len(Deps)
      /\ Deps \in [1 .. Len(Deps) -> Names]
  <2>1. Deps \in Seq(Names) /\ Deps # <<>>
    BY DepsAssumption
  <2> QED  BY <2>1
<1>2. Names = {Deps[i] : i \in 1 .. Len(Deps)}
  BY <1>1 DEF Names, ToSet
<1>3. Deps \in Surjection(1 .. Len(Deps), Names)
  BY <1>1, <1>2 DEF Surjection
<1>4. IsFiniteSet(1 .. Len(Deps))
  BY <1>1, FS_Interval
<1>5. IsFiniteSet(Names)
  BY <1>3, <1>4, FS_Surjection
<1>6. \A i, j \in 1 .. Len(Deps) : Deps[i] = Deps[j] => i = j
  BY <1>1, DepsAssumption DEF IsInjective
<1> QED  BY <1>1, <1>2, <1>5, <1>6

LEMMA OnType ==
  ASSUME NEW d, NEW S
  PROVE  /\ IsFiniteSet(On(d, S)) /\ Cardinality(On(d, S)) \in Nat
         /\ IsFiniteSet(On(d, S)') /\ Cardinality(On(d, S)') \in Nat
<1>1. IsFiniteSet(Users)
  <2>1. IsFiniteSet(Callers) /\ IsFiniteSet({PingTest})
    BY CallersAssumption, FS_Singleton
  <2> QED  BY <2>1, FS_Union DEF Users
<1>2. On(d, S) \subseteq Users /\ On(d, S)' \subseteq Users
  BY DEF On
<1> HIDE DEF On
<1>3. \A T \in SUBSET Users : IsFiniteSet(T) /\ Cardinality(T) \in Nat
  BY <1>1, FS_Subset, FS_CardinalityType
<1> QED  BY <1>2, <1>3

LEMMA CardinalityChange ==
  ASSUME NEW A, NEW B, IsFiniteSet(A), IsFiniteSet(B), NEW u, A \ {u} = B \ {u}
  PROVE  Cardinality(B) =
           Cardinality(A) - (IF u \in A THEN 1 ELSE 0) + (IF u \in B THEN 1 ELSE 0)
<1>1. ASSUME NEW C, IsFiniteSet(C)
      PROVE  /\ Cardinality(C) \in Nat /\ Cardinality(C \ {u}) \in Nat
             /\ Cardinality(C) = Cardinality(C \ {u}) + (IF u \in C THEN 1 ELSE 0)
  <2>1. IsFiniteSet(C \ {u}) /\ Cardinality(C) \in Nat /\ Cardinality(C \ {u}) \in Nat
    BY <1>1, FS_Subset, FS_CardinalityType
  <2>2. CASE u \in C
    <3>1. Cardinality(C \ {u}) = Cardinality(C) - 1
      BY <1>1, <2>2, FS_RemoveElement
    <3> QED  BY <2>1, <2>2, <3>1
  <2>3. CASE u \notin C
    <3>1. C \ {u} = C
      BY <2>3
    <3> QED  BY <2>1, <2>3, <3>1
  <2> QED  BY <2>2, <2>3
<1>2. /\ Cardinality(A) \in Nat /\ Cardinality(A \ {u}) \in Nat
      /\ Cardinality(A) = Cardinality(A \ {u}) + (IF u \in A THEN 1 ELSE 0)
  BY <1>1
<1>3. /\ Cardinality(B) \in Nat /\ Cardinality(B \ {u}) \in Nat
      /\ Cardinality(B) = Cardinality(B \ {u}) + (IF u \in B THEN 1 ELSE 0)
  BY <1>1
<1> QED  BY <1>2, <1>3

(* When one user moves. *)
LEMMA OnChange ==
  ASSUME NEW u \in Users, \A v \in Users \ {u} : pc'[v] = pc[v] /\ dep'[v] = dep[v], NEW d, NEW S
  PROVE  Cardinality(On(d, S)') =
           Cardinality(On(d, S)) - (IF u \in On(d, S) THEN 1 ELSE 0) + (IF u \in On(d, S)' THEN 1 ELSE 0)
<1>1. On(d, S) \ {u} = On(d, S)' \ {u}
  BY DEF On
<1>2. IsFiniteSet(On(d, S)) /\ IsFiniteSet(On(d, S)')
  BY OnType
<1> HIDE DEF On
<1> QED  BY <1>1, <1>2, CardinalityChange

(* The connections of a database that one user has. *)
Has(u, d) ==
  IF dep[u] # d THEN 0
  ELSE IF pc[u] = "executing" THEN 2 ELSE IF pc[u] \in {"query", "rows", "exec"} THEN 1 ELSE 0

LEMMA InUseChange ==
  ASSUME NEW u \in Users, \A v \in Users \ {u} : pc'[v] = pc[v] /\ dep'[v] = dep[v], NEW d
  PROVE  /\ InUse(d) \in Nat /\ InUse(d)' \in Nat
         /\ InUse(d)' = InUse(d) - Has(u, d) + Has(u, d)'
<1> DEFINE Some == {"query", "rows", "exec", "executing"}
           Two == {"executing"}
<1>1. /\ Cardinality(On(d, Some)) \in Nat /\ Cardinality(On(d, Two)) \in Nat
      /\ Cardinality(On(d, Some)') \in Nat /\ Cardinality(On(d, Two)') \in Nat
  BY OnType
<1>2. Cardinality(On(d, Some)') =
        Cardinality(On(d, Some)) - (IF u \in On(d, Some) THEN 1 ELSE 0) + (IF u \in On(d, Some)' THEN 1 ELSE 0)
  <2> HIDE DEF Some
  <2> QED  BY OnChange
<1>3. Cardinality(On(d, Two)') =
        Cardinality(On(d, Two)) - (IF u \in On(d, Two) THEN 1 ELSE 0) + (IF u \in On(d, Two)' THEN 1 ELSE 0)
  <2> HIDE DEF Two
  <2> QED  BY OnChange
<1>4. /\ (IF u \in On(d, Some) THEN 1 ELSE 0) + (IF u \in On(d, Two) THEN 1 ELSE 0) = Has(u, d)
      /\ (IF u \in On(d, Some)' THEN 1 ELSE 0) + (IF u \in On(d, Two)' THEN 1 ELSE 0) = Has(u, d)'
  BY DEF On, Has
<1>5. /\ InUse(d) = Cardinality(On(d, Some)) + Cardinality(On(d, Two))
      /\ InUse(d)' = Cardinality(On(d, Some)') + Cardinality(On(d, Two)')
  BY DEF InUse
<1> HIDE DEF Some, Two
<1> QED  BY <1>1, <1>2, <1>3, <1>4, <1>5
-----------------------------------------------------------------------------
(* The descriptors. *)
Lens == [d \in Names |-> Len(pool[d])]
PoolsOK == pool \in [Names -> Seq({"good", "broken"})] /\ leaked \in [Names -> Nat]

FilesOK ==
  /\ \A d \in Names : Len(pool[d]) \in Nat /\ leaked[d] \in Nat
  /\ Lens \in [Names -> Int] /\ leaked \in [Names -> Int]
  /\ SumFunction(leaked) \in Nat /\ SumFunction(Lens) \in Nat
  /\ Files = SumFunction(leaked) + SumFunction(Lens)
  /\ \A d \in Names : leaked[d] <= SumFunction(leaked)

LEMMA FilesType == PoolsOK => FilesOK
<1> SUFFICES ASSUME PoolsOK PROVE FilesOK
  OBVIOUS
<1>1. \A d \in Names : Len(pool[d]) \in Nat /\ leaked[d] \in Nat
  BY DEF PoolsOK
<1>2. Lens \in [Names -> Nat] /\ leaked \in [Names -> Nat]
  BY <1>1 DEF Lens, PoolsOK
<1>3. ASSUME NEW f \in [Names -> Nat]
      PROVE  SumFunction(f) \in Nat /\ \A d \in Names : f[d] <= SumFunction(f)
  <2>1. \A d \in Names : f[d] \in Int /\ f[d] >= 0
    OBVIOUS
  <2>2. /\ SumFunctionOnSet(f, Names) \in Nat
        /\ \A d \in Names : f[d] <= SumFunctionOnSet(f, Names)
    BY <2>1, NamesOfDeps, SumNonNegative
  <2> QED  BY <2>2 DEF SumFunction
<1>4. Files = SumFunction(leaked) + SumFunction(Lens)
  BY DEF Files, Lens
<1> QED  BY <1>1, <1>2, <1>3, <1>4 DEF FilesOK

LEMMA PoolsOKByType == TypeOK => PoolsOK
BY ClientsAssumption DEF TypeOK, PoolsOK

LEMMA FilesChange ==
  ASSUME PoolsOK, PoolsOK', NEW d \in Names,
         \A e \in Names \ {d} : pool'[e] = pool[e] /\ leaked'[e] = leaked[e]
  PROVE  /\ Files' = Files - leaked[d] + leaked'[d] - Len(pool[d]) + Len(pool'[d])
         /\ SumFunction(leaked') = SumFunction(leaked) - leaked[d] + leaked'[d]
         /\ SumFunction(leaked') \in Nat /\ SumFunction(leaked') <= Files'
         /\ \A e \in Names : leaked'[e] <= SumFunction(leaked')
<1>1. FilesOK
  BY FilesType
<1>2. FilesOK'
  BY FilesType, PTL
<1>3. SumFunction(leaked') = SumFunction(leaked) - leaked[d] + leaked'[d]
  <2>1. leaked \in [Names -> Int] /\ leaked' \in [Names -> Int] /\ IsFiniteSet(Names)
    BY <1>1, <1>2, NamesOfDeps DEF FilesOK
  <2>2. \A e \in Names : e # d => leaked'[e] = leaked[e]
    OBVIOUS
  <2> QED  BY <2>1, <2>2, SumChange
<1>4. SumFunction(Lens') = SumFunction(Lens) - Lens[d] + Lens'[d]
  <2>1. Lens \in [Names -> Int] /\ Lens' \in [Names -> Int] /\ IsFiniteSet(Names)
    BY <1>1, <1>2, NamesOfDeps DEF FilesOK
  <2>2. \A e \in Names : e # d => Lens'[e] = Lens[e]
    BY DEF Lens
  <2> HIDE DEF Lens
  <2> QED  BY <2>1, <2>2, SumChange
<1>5. Lens[d] = Len(pool[d]) /\ Lens'[d] = Len(pool'[d])
  BY DEF Lens
<1>6. /\ leaked[d] \in Nat /\ leaked'[d] \in Nat /\ Len(pool[d]) \in Nat /\ Len(pool'[d]) \in Nat
  BY <1>1, <1>2 DEF FilesOK
<1>7. /\ SumFunction(leaked) \in Nat /\ SumFunction(Lens) \in Nat
      /\ SumFunction(leaked') \in Nat /\ SumFunction(Lens') \in Nat
      /\ Files = SumFunction(leaked) + SumFunction(Lens)
      /\ Files' = SumFunction(leaked') + SumFunction(Lens')
      /\ \A e \in Names : leaked'[e] <= SumFunction(leaked')
  BY <1>1, <1>2 DEF FilesOK
<1> HIDE DEF Lens
<1>8. SumFunction(Lens') = SumFunction(Lens) - Len(pool[d]) + Len(pool'[d])
  BY <1>4, <1>5
<1>9. Files' = Files - leaked[d] + leaked'[d] - Len(pool[d]) + Len(pool'[d])
  <2> DEFINE l == SumFunction(leaked)
             m == SumFunction(Lens)
             lost == leaked[d]
             size == Len(pool[d])
  <2>1. l \in Int /\ m \in Int /\ lost \in Int /\ size \in Int /\ leaked'[d] \in Int /\ Len(pool'[d]) \in Int
    BY <1>6, <1>7
  <2>2. SumFunction(leaked') = l - lost + leaked'[d] /\ SumFunction(Lens') = m - size + Len(pool'[d])
    BY <1>3, <1>8
  <2>3. Files = l + m /\ Files' = SumFunction(leaked') + SumFunction(Lens')
    BY <1>7
  <2> HIDE DEF l, m, lost, size
  <2>4. Files' = Files - lost + leaked'[d] - size + Len(pool'[d])
    BY <2>1, <2>2, <2>3
  <2> QED  BY <2>4 DEF lost, size
<1>10. SumFunction(leaked') <= Files'
  BY <1>7
<1> QED  BY <1>3, <1>7, <1>9, <1>10

LEMMA GoodType ==
  ASSUME NEW s \in Seq({"good", "broken"})
  PROVE  Good(s) \in Nat /\ Good(s) <= Len(s)
<1> DEFINE G == {i \in DOMAIN s : s[i] = "good"}
<1>1. Len(s) \in Nat /\ DOMAIN s = 1 .. Len(s)
  OBVIOUS
<1>2. IsFiniteSet(1 .. Len(s)) /\ Cardinality(1 .. Len(s)) = Len(s)
  BY <1>1, FS_Interval
<1>3. G \subseteq 1 .. Len(s)
  BY <1>1
<1> HIDE DEF G
<1>4. Cardinality(G) \in Nat /\ Cardinality(G) <= Len(s)
  BY <1>2, <1>3, FS_Subset, FS_CardinalityType
<1> QED  BY <1>4 DEF Good, G
-----------------------------------------------------------------------------
(* What the start does in a step. *)
BootStep(d) ==
  \/ /\ step = "dial" /\ Kind[d] = "mysql" /\ step' = "ping"
     /\ UNCHANGED <<boot, leaked, pool>>
  \/ Retry(d)
  \/ /\ step = "dial" /\ Kind[d] = "fb" /\ d \in up /\ Files < MaxFiles
     /\ step' = (IF Len(pool[d]) + 1 = Clients THEN "ping" ELSE "dial")
     /\ pool' = [pool EXCEPT ![d] = Append(@, "good")]
     /\ UNCHANGED <<boot, leaked>>
  \/ /\ step = "ping" /\ step' = "set" /\ (Kind[d] = "mysql" => Files < MaxFiles)
     /\ UNCHANGED <<boot, leaked, pool>>
  \/ /\ step = "set" /\ step' = "dial" /\ boot' = boot + 1
     /\ UNCHANGED <<leaked, pool>>

LEMMA BootCases ==
  ASSUME TypeOK, InitSubSystems
  PROVE  /\ boot \in 1 .. Len(Deps) /\ Deps[boot] \in Names
         /\ BootStep(Deps[boot])
         /\ UNCHANGED <<up, cacheUp, pc, dep, client, rows>>
<1>1. boot \in 1 .. Len(Deps) /\ Deps[boot] \in Names
  BY NamesOfDeps DEF InitSubSystems, Booted, TypeOK
<1> DEFINE d == Deps[boot]
<1>2. Kind[d] \in {"fb", "mysql"} /\ Files \in Nat /\ MaxFiles \in Nat
  <2>1. Files \in Nat
    BY PoolsOKByType, FilesType DEF FilesOK
  <2> QED  BY <1>1, <2>1, DepsAssumption, ClientsAssumption
<1>3. DialFails(d) \/ (d \in up /\ Files < MaxFiles)
  BY <1>2 DEF DialFails
<1>4. Dial(d) \/ PingBackend(d) \/ SetCache(d)
  BY DEF InitSubSystems
<1>5. BootStep(d)
  <2> HIDE DEF d
  <2>1. CASE Dial(d)
    BY <1>2, <1>3, <2>1 DEF Dial, BootStep
  <2>2. CASE PingBackend(d)
    BY <1>2, <1>3, <2>2 DEF PingBackend, PingWorks, BootStep
  <2>3. CASE SetCache(d)
    BY <2>3 DEF SetCache, BootStep
  <2> QED  BY <1>4, <2>1, <2>2, <2>3
<1> QED  BY <1>1, <1>5 DEF InitSubSystems, userVars

(* What a user does touches nobody else, and at most its subsystem's       *)
(* channel.                                                                *)
UserStep(u) == Begin(u) \/ TakeClient(u) \/ TakeConn(u) \/ BeginExec(u) \/ Ends(u)

LEMMA UserStepOthers ==
  ASSUME TypeOK, NEW u \in Users, UserStep(u)
  PROVE  /\ \A v \in Users \ {u} : pc'[v] = pc[v] /\ dep'[v] = dep[v] /\ client'[v] = client[v]
         /\ \A d \in Names \ {dep[u]} : pool'[d] = pool[d]
         /\ UNCHANGED <<up, cacheUp, boot, step, leaked>>
<1> USE DEF TypeOK, Goto, Finish, bootVars
<1>1. CASE Begin(u)
  BY <1>1 DEF Begin
<1>2. CASE TakeClient(u)
  BY <1>2 DEF TakeClient
<1>3. CASE TakeConn(u) \/ BeginExec(u)
  BY <1>3 DEF TakeConn, BeginExec
<1>4. CASE Call(u)
  BY <1>4 DEF Call
<1>5. CASE PutClient(u)
  BY <1>5 DEF PutClient
<1>6. CASE Query(u) \/ NextRow(u) \/ EndExec(u) \/ CloseRows(u)
  BY <1>6 DEF Query, NextRow, EndExec, CloseRows
<1> QED  BY <1>1, <1>2, <1>3, <1>4, <1>5, <1>6 DEF UserStep, Ends

LEMMA Steps ==
  [Next]_vars =>
    \/ InitSubSystems
    \/ \E u \in Users : UserStep(u)
    \/ \E d \in Names : BackendDown(d)
    \/ /\ (\E d \in Names : BackendUp(d)) \/ UNCHANGED up
       /\ UNCHANGED <<bootVars, pool, userVars>>
       /\ cacheUp' \in {cacheUp, ~cacheUp}
BY DEF Next, UserStep, BackendUp, CacheChanges, vars
-----------------------------------------------------------------------------
(* A step of the start opens a connection only if there is a descriptor,   *)
(* and loses no more connections than it had.                              *)
LEMMA BootBudget ==
  ASSUME IInv, InitSubSystems
  PROVE  /\ leaked' \in [Names -> 0 .. MaxFiles]
         /\ pool' \in [Names -> Seq({"good", "broken"})] /\ \A d \in Names : Len(pool'[d]) <= Clients
         /\ Budget'
<1> DEFINE d == Deps[boot]
           Pools == /\ pool' \in [Names -> Seq({"good", "broken"})]
                    /\ \A e \in Names : Len(pool'[e]) <= Clients
           Opened == /\ Files' <= MaxFiles
                     /\ step' = "set" /\ Kind[Deps[boot']] = "mysql" => Files' < MaxFiles
<1>1. TypeOK /\ Starting /\ Budget /\ ~Booted
  BY DEF IInv, InitSubSystems
<1>2. d \in Names /\ BootStep(d)
  BY <1>1, BootCases
<1>3. PoolsOK /\ FilesOK
  BY <1>1, PoolsOKByType, FilesType
<1>4. /\ pool \in [Names -> Seq({"good", "broken"})]
      /\ \A e \in Names : Len(pool[e]) \in Nat /\ Len(pool[e]) <= Clients
      /\ leaked \in [Names -> 0 .. MaxFiles] /\ leaked \in [Names -> Nat]
      /\ MaxFiles \in Nat /\ Clients \in Nat \ {0} /\ Files \in Nat
  BY <1>1, <1>3, ClientsAssumption DEF TypeOK, FilesOK
<1>5. /\ SumFunction(leaked) <= MaxFiles /\ Files <= MaxFiles
      /\ step = "set" /\ Kind[d] = "mysql" => Files < MaxFiles
  BY <1>1 DEF Budget
<1>6. ASSUME leaked' \in [Names -> Nat], Pools, Opened,
             SumFunction(leaked') <= MaxFiles, \A e \in Names : leaked'[e] <= MaxFiles
      PROVE  leaked' \in [Names -> 0 .. MaxFiles] /\ Pools /\ Budget'
  BY <1>4, <1>6 DEF Budget
<1>7. ASSUME UNCHANGED <<leaked, pool>>,
             step' = "set" /\ Kind[Deps[boot']] = "mysql" => Files < MaxFiles
      PROVE  leaked' \in [Names -> 0 .. MaxFiles] /\ Pools /\ Budget'
  <2>1. Files' = Files
    BY <1>7 DEF Files
  <2> QED  BY <1>4, <1>5, <1>7, <2>1 DEF Budget
<1>8. CASE /\ step = "dial" /\ Kind[d] = "mysql" /\ step' = "ping"
           /\ UNCHANGED <<boot, leaked, pool>>
  BY <1>7, <1>8
<1>9. CASE Retry(d)
  <2> DEFINE x == IF Kind[d] = "fb" THEN Good(pool[d]) ELSE IF step = "set" THEN 1 ELSE 0
  <2>1. /\ step' = "dial" /\ leaked' = [leaked EXCEPT ![d] = leaked[d] + x]
        /\ pool' = [pool EXCEPT ![d] = <<>>]
    BY <1>9 DEF Retry
  <2>2. /\ x \in Nat
        /\ Kind[d] = "fb" => x <= Len(pool[d])
        /\ Kind[d] # "fb" => x <= 1 /\ (x = 1 => step = "set")
    <3>1. Good(pool[d]) \in Nat /\ Good(pool[d]) <= Len(pool[d])
      BY <1>2, <1>4, GoodType
    <3> QED  BY <3>1
  <2> HIDE DEF x
  <2>3. leaked' \in [Names -> Nat]
    BY <1>2, <1>4, <2>1, <2>2
  <2>4. Pools /\ pool'[d] = <<>> /\ \A e \in Names \ {d} : pool'[e] = pool[e]
    <3>1. <<>> \in Seq({"good", "broken"}) /\ Len(<<>>) = 0
      OBVIOUS
    <3>2. pool' \in [Names -> Seq({"good", "broken"})]
      BY <1>2, <1>4, <2>1, <3>1
    <3>3. pool'[d] = <<>> /\ \A e \in Names \ {d} : pool'[e] = pool[e]
      BY <1>2, <1>4, <2>1
    <3> QED  BY <1>4, <3>1, <3>2, <3>3
  <2>5. leaked'[d] = leaked[d] + x /\ leaked[d] \in Nat /\ \A e \in Names \ {d} : leaked'[e] = leaked[e]
    BY <1>2, <1>4, <2>1
  <2>6. /\ Files' = Files - leaked[d] + leaked'[d] - Len(pool[d]) + Len(pool'[d])
        /\ SumFunction(leaked') \in Nat /\ SumFunction(leaked') <= Files'
        /\ \A e \in Names : leaked'[e] <= SumFunction(leaked')
    <3>1. PoolsOK'
      BY <2>3, <2>4 DEF PoolsOK
    <3> QED  BY <1>2, <1>3, <2>4, <2>5, <3>1, FilesChange
  <2>7. Files' = Files + x - Len(pool[d]) /\ Len(pool[d]) \in Nat
    <3>1. Len(pool'[d]) = 0
      BY <2>4
    <3>2. Len(pool[d]) \in Nat
      BY <1>2, <1>4
    <3> DEFINE size == Len(pool[d])
               before == leaked[d]
    <3>3. Files' = Files - before + (before + x) - size + 0
      BY <2>5, <2>6, <3>1
    <3>4. size \in Nat /\ before \in Nat
      BY <2>5, <3>2
    <3> HIDE DEF size, before
    <3>5. Files' = Files + x - size
      BY <1>4, <2>2, <3>3, <3>4
    <3> QED  BY <3>2, <3>5 DEF size
  <2>8. Files' <= MaxFiles
    <3>1. x <= Len(pool[d]) \/ (x \in {0, 1} /\ (x = 1 => Files < MaxFiles))
      BY <1>2, <1>5, <2>2, DepsAssumption
    <3> DEFINE size == Len(pool[d])
    <3>2. size \in Nat /\ Files' = Files + x - size /\ (x <= size \/ (x \in {0, 1} /\ (x = 1 => Files < MaxFiles)))
      BY <2>7, <3>1
    <3> HIDE DEF size
    <3> QED  BY <1>4, <1>5, <2>2, <3>2
  <2>9. SumFunction(leaked') <= MaxFiles /\ \A e \in Names : leaked'[e] <= MaxFiles
    <3>1. Files' \in Int
      BY <1>4, <2>2, <2>7
    <3>2. \A e \in Names : leaked'[e] \in Nat
      BY <2>3
    <3> QED  BY <1>4, <2>6, <2>8, <3>1, <3>2
  <2> QED  BY <1>6, <2>1, <2>3, <2>4, <2>8, <2>9
<1>10. CASE /\ step = "dial" /\ Kind[d] = "fb" /\ d \in up /\ Files < MaxFiles
            /\ step' = (IF Len(pool[d]) + 1 = Clients THEN "ping" ELSE "dial")
            /\ pool' = [pool EXCEPT ![d] = Append(@, "good")]
            /\ UNCHANGED <<boot, leaked>>
  <2>1. Len(pool[d]) < Clients /\ pool[d] \in Seq({"good", "broken"})
    BY <1>1, <1>2, <1>4, <1>10 DEF Starting
  <2>2. /\ Append(pool[d], "good") \in Seq({"good", "broken"})
        /\ Len(Append(pool[d], "good")) = Len(pool[d]) + 1
    BY <2>1
  <2>3. /\ pool' = [pool EXCEPT ![d] = Append(pool[d], "good")]
        /\ pool'[d] = Append(pool[d], "good") /\ \A e \in Names \ {d} : pool'[e] = pool[e]
    BY <1>2, <1>4, <1>10
  <2>4. Pools
    <3>1. pool' \in [Names -> Seq({"good", "broken"})]
      BY <1>2, <1>4, <2>2, <2>3
    <3>2. Len(pool'[d]) <= Clients
      BY <1>2, <1>4, <2>1, <2>2, <2>3
    <3> QED  BY <1>4, <2>3, <3>1, <3>2
  <2>5. Files' = Files - leaked[d] + leaked'[d] - Len(pool[d]) + Len(pool'[d])
    <3>1. PoolsOK'
      BY <1>4, <1>10, <2>4 DEF PoolsOK
    <3>2. \A e \in Names \ {d} : pool'[e] = pool[e] /\ leaked'[e] = leaked[e]
      BY <1>10, <2>3
    <3> QED  BY <1>2, <1>3, <3>1, <3>2, FilesChange
  <2>6. Files' = Files + 1
    <3> DEFINE size == Len(pool[d])
               before == leaked[d]
    <3>1. Files' = Files - before + before - size + (size + 1)
      BY <1>10, <2>2, <2>3, <2>5
    <3>2. size \in Nat /\ before \in Nat
      BY <1>2, <1>4
    <3> HIDE DEF size, before
    <3> QED  BY <1>4, <3>1, <3>2
  <2>7. Opened
    BY <1>4, <1>10, <2>6
  <2>8. \A e \in Names : leaked'[e] <= MaxFiles
    BY <1>4, <1>10
  <2> QED  BY <1>4, <1>5, <1>6, <1>10, <2>4, <2>7, <2>8
<1>11. CASE /\ step = "ping" /\ step' = "set" /\ (Kind[d] = "mysql" => Files < MaxFiles)
            /\ UNCHANGED <<boot, leaked, pool>>
  BY <1>7, <1>11
<1>12. CASE /\ step = "set" /\ step' = "dial" /\ boot' = boot + 1
            /\ UNCHANGED <<leaked, pool>>
  BY <1>7, <1>12
<1> QED  BY <1>2, <1>8, <1>9, <1>10, <1>11, <1>12 DEF BootStep

(* A client is taken from the front of its channel and put back at the end. *)
LEMMA Taken ==
  ASSUME TypeOK, NEW u \in Users, TakeClient(u)
  PROVE  /\ dep[u] \in Names /\ Kind[dep[u]] = "fb" /\ pc[u] = "take" /\ pc' = [pc EXCEPT ![u] = "call"]
         /\ pool' \in [Names -> Seq({"good", "broken"})]
         /\ Len(pool[dep[u]]) \in Nat \ {0} /\ Len(pool'[dep[u]]) = Len(pool[dep[u]]) - 1
         /\ client'[u] = pool[dep[u]][1] /\ client'[u] \in {"good", "broken"}
         /\ \A i \in 1 .. Len(pool'[dep[u]]) :
              i + 1 \in 1 .. Len(pool[dep[u]]) /\ pool'[dep[u]][i] = pool[dep[u]][i + 1]
         /\ client' = [client EXCEPT ![u] = client'[u]] /\ UNCHANGED <<dep, rows>>
<1> DEFINE d == dep[u]
           s == pool[d]
<1>1. d \in Names /\ s \in Seq({"good", "broken"}) /\ s # <<>>
  BY DEF TakeClient, TypeOK
<1>2. /\ Len(s) \in Nat \ {0} /\ Tail(s) \in Seq({"good", "broken"}) /\ Len(Tail(s)) = Len(s) - 1
      /\ Head(s) = s[1] /\ s[1] \in {"good", "broken"}
      /\ \A i \in 1 .. Len(Tail(s)) : i + 1 \in 1 .. Len(s) /\ Tail(s)[i] = s[i + 1]
  BY <1>1
<1>3. pool' = [pool EXCEPT ![d] = Tail(s)] /\ client' = [client EXCEPT ![u] = Head(s)]
  BY DEF TakeClient
<1>4. pool'[d] = Tail(s) /\ pool' \in [Names -> Seq({"good", "broken"})] /\ client'[u] = Head(s)
  BY <1>1, <1>2, <1>3 DEF TypeOK
<1> QED  BY <1>1, <1>2, <1>3, <1>4 DEF TakeClient, Goto

LEMMA PutBack ==
  ASSUME TypeOK, Holding, NEW u \in Users, PutClient(u)
  PROVE  /\ dep[u] \in Names /\ Kind[dep[u]] = "fb" /\ pc[u] = "put" /\ pc' = [pc EXCEPT ![u] = "idle"]
         /\ pool' \in [Names -> Seq({"good", "broken"})]
         /\ Len(pool[dep[u]]) \in Nat /\ Len(pool'[dep[u]]) = Len(pool[dep[u]]) + 1
         /\ Len(pool[dep[u]]) < Clients
         /\ \A i \in 1 .. Len(pool'[dep[u]]) :
              \/ i \in 1 .. Len(pool[dep[u]]) /\ pool'[dep[u]][i] = pool[dep[u]][i]
              \/ pool'[dep[u]][i] = client[u]
         /\ client' = [client EXCEPT ![u] = NoClient] /\ dep' = [dep EXCEPT ![u] = Deps[1]]
         /\ UNCHANGED rows
<1> DEFINE d == dep[u]
           s == pool[d]
           t == Append(s, client[u])
<1>1. /\ d \in Names /\ s \in Seq({"good", "broken"})
      /\ Kind[d] = "fb" /\ client[u] \in {"good", "broken"}
  BY DEF PutClient, TypeOK, Holding
<1>2. /\ Len(s) \in Nat /\ t \in Seq({"good", "broken"}) /\ Len(t) = Len(s) + 1
      /\ \A i \in 1 .. Len(t) : (i \in 1 .. Len(s) /\ t[i] = s[i]) \/ t[i] = client[u]
  BY <1>1
<1>3. pool' = [pool EXCEPT ![d] = t]
  BY DEF PutClient
<1>4. pool'[d] = t /\ pool' \in [Names -> Seq({"good", "broken"})]
  BY <1>1, <1>2, <1>3 DEF TypeOK
<1> HIDE DEF t
<1> QED  BY <1>1, <1>2, <1>4 DEF PutClient, Goto, Finish

(* A database has as many connections in use as before, or one more if it  *)
(* had one to give.                                                        *)
LEMMA UserConnections ==
  ASSUME TypeOK, NEW u \in Users, UserStep(u), NEW d \in Names
  PROVE  InUse(d)' <= MaxOpen
<1>1. \A v \in Users \ {u} : pc'[v] = pc[v] /\ dep'[v] = dep[v]
  BY UserStepOthers
<1>2. /\ InUse(d) \in Nat /\ InUse(d)' \in Nat
      /\ InUse(d)' = InUse(d) - Has(u, d) + Has(u, d)'
  BY <1>1, InUseChange
<1>3. InUse(d) <= MaxOpen /\ MaxOpen \in Nat /\ Has(u, d) \in 0 .. 2 /\ Has(u, d)' \in 0 .. 2
  BY ClientsAssumption DEF TypeOK, Has
<1>4. Has(u, d)' <= Has(u, d) \/ (InUse(d) < MaxOpen /\ Has(u, d)' = Has(u, d) + 1)
  <2> USE DEF Has, Goto, Finish, TypeOK
  <2>1. CASE Begin(u)
    BY <2>1 DEF Begin
  <2>2. CASE TakeClient(u)
    BY <2>2 DEF TakeClient
  <2>3. CASE TakeConn(u)
    BY <1>3, <2>3 DEF TakeConn
  <2>4. CASE BeginExec(u)
    BY <1>3, <2>4 DEF BeginExec
  <2>5. CASE Call(u) \/ PutClient(u)
    BY <2>5 DEF Call, PutClient
  <2>6. CASE Query(u)
    <3>1. pc[u] = "query" /\ pc' \in {[pc EXCEPT ![u] = "idle"], [pc EXCEPT ![u] = "rows"]}
          /\ (pc' = [pc EXCEPT ![u] = "rows"] => dep'[u] = dep[u] \/ pc'[u] = "idle")
      BY <2>6 DEF Query
    <3>2. pc'[u] = "idle" \/ (pc'[u] = "rows" /\ dep'[u] = dep[u])
      BY <3>1
    <3> QED  BY <3>1, <3>2
  <2>7. CASE NextRow(u) \/ EndExec(u)
    BY <2>7 DEF NextRow, EndExec
  <2>8. CASE CloseRows(u)
    BY <2>8 DEF CloseRows
  <2> QED  BY <2>1, <2>2, <2>3, <2>4, <2>5, <2>6, <2>7, <2>8 DEF UserStep, Ends
<1> QED  BY <1>2, <1>3, <1>4

LEMMA SameConnections ==
  ASSUME UNCHANGED <<pc, dep>>, NEW d
  PROVE  InUse(d)' = InUse(d)
BY DEF InUse, On

(* All clients of a backend that goes down are broken. *)
LEMMA Broken ==
  ASSUME TypeOK, NEW d \in Names, BackendDown(d)
  PROVE  /\ pool' \in [Names -> Seq({"good", "broken"})]
         /\ \A e \in Names : Len(pool'[e]) = Len(pool[e])
         /\ \A e \in Names \ {d} : pool'[e] = pool[e]
         /\ Kind[d] = "fb" => \A i \in 1 .. Len(pool'[d]) : pool'[d][i] = "broken"
         /\ Kind[d] # "fb" => UNCHANGED <<pool, client, leaked>>
         /\ Kind[d] = "fb" => leaked' = [leaked EXCEPT ![d] = 0]
         /\ client' \in [Users -> {"good", "broken", NoClient}]
         /\ \A u \in Users : \/ client'[u] = client[u] /\ ~(Kind[d] = "fb" /\ dep[u] = d /\ client[u] = "good")
                             \/ client'[u] = "broken"
         /\ up' = up \ {d} /\ UNCHANGED <<cacheUp, boot, step, pc, dep, rows>>
<1>1. pool \in [Names -> Seq({"good", "broken"})] /\ client \in [Users -> {"good", "broken", NoClient}]
  BY DEF TypeOK
<1>2. CASE Kind[d] = "fb"
  <2> DEFINE s == pool[d]
             t == [i \in DOMAIN s |-> "broken"]
  <2>1. s \in Seq({"good", "broken"}) /\ DOMAIN s = 1 .. Len(s) /\ Len(s) \in Nat
    BY <1>1
  <2>2. t \in Seq({"good", "broken"}) /\ Len(t) = Len(s)
    BY <2>1
  <2>3. \A i \in 1 .. Len(t) : t[i] = "broken"
    BY <2>1, <2>2
  <2>4. pool' = [pool EXCEPT ![d] = t]
    BY <1>2 DEF BackendDown
  <2> HIDE DEF t
  <2>5. /\ pool' \in [Names -> Seq({"good", "broken"})] /\ pool'[d] = t
        /\ \A e \in Names \ {d} : pool'[e] = pool[e]
    BY <1>1, <2>2, <2>4
  <2>6. /\ client' \in [Users -> {"good", "broken", NoClient}]
        /\ \A u \in Users : \/ client'[u] = client[u] /\ ~(dep[u] = d /\ client[u] = "good")
                            \/ client'[u] = "broken"
    BY <1>1, <1>2 DEF BackendDown
  <2> QED  BY <1>2, <2>2, <2>3, <2>5, <2>6 DEF BackendDown
<1>3. CASE Kind[d] # "fb"
  BY <1>1, <1>3 DEF BackendDown
<1> QED  BY <1>2, <1>3
-----------------------------------------------------------------------------
LEMMA InitIInv == Init => IInv
<1> SUFFICES ASSUME Init PROVE IInv
  OBVIOUS
<1> USE DEF Init
<1>1. /\ Len(Deps) \in Nat \ {0} /\ Deps[1] \in Names /\ IsFiniteSet(Names)
      /\ \A i \in 1 .. Len(Deps) : Deps[i] \in Names
  BY NamesOfDeps
<1>2. /\ MaxFiles \in Nat /\ Clients \in Nat \ {0} /\ MaxOpen \in Nat /\ MaxRows \in Nat
      /\ <<>> \in Seq({"good", "broken"}) /\ Len(<<>>) = 0
  BY ClientsAssumption
<1>3. \A d, S : "idle" \notin S => Cardinality(On(d, S)) = 0
  <2> SUFFICES ASSUME NEW d, NEW S, "idle" \notin S PROVE Cardinality(On(d, S)) = 0
    OBVIOUS
  <2>1. On(d, S) = {}
    BY DEF On
  <2> QED  BY <2>1, FS_EmptySet
<1>4. \A d \in Names : InUse(d) = 0
  BY <1>3 DEF InUse
<1>5. TypeOK
  <2>1. pool \in [Names -> Seq({"good", "broken"})] /\ \A d \in Names : Len(pool[d]) <= Clients
    BY <1>2
  <2>2. leaked \in [Names -> 0 .. MaxFiles] /\ rows \in [Users -> 0 .. MaxRows]
    BY <1>2
  <2>3. boot \in 1 .. Len(Deps) + 1 /\ \A d \in Names : InUse(d) <= MaxOpen
    BY <1>1, <1>2, <1>4
  <2> QED  BY <1>1, <2>1, <2>2, <2>3 DEF TypeOK, Busy
<1>6. SumFunction(leaked) = 0 /\ Files = 0
  <2>1. ASSUME NEW f \in [Names -> Int], \A d \in Names : f[d] = 0 PROVE SumFunction(f) = 0
    <3>1. SumFunctionOnSet(f, Names) = 0 * Cardinality(Names) /\ Cardinality(Names) \in Nat
      BY <1>1, <2>1, SumConstant, FS_CardinalityType
    <3>2. SumFunctionOnSet(f, Names) = 0
      BY <3>1
    <3> QED  BY <3>2 DEF SumFunction
  <2>2. SumFunction(leaked) = 0
    BY <2>1
  <2>3. Lens \in [Names -> Int] /\ \A d \in Names : Lens[d] = 0
    BY <1>2 DEF Lens
  <2>4. SumFunction(Lens) = 0
    BY <2>1, <2>3
  <2> QED  BY <2>2, <2>4 DEF Files, Lens
<1>7. Quiet /\ Holding /\ Dead
  BY <1>2 DEF Quiet, Holding, Dead, On
<1>8. Starting
  BY <1>1, <1>2 DEF Starting
<1>9. Budget
  BY <1>2, <1>6 DEF Budget
<1>10. ClientsAccounted
  <2>1. \A i \in DOMAIN Deps : ~(i < boot)
    BY NamesOfDeps
  <2> QED  BY <2>1 DEF ClientsAccounted
<1> QED  BY <1>5, <1>7, <1>8, <1>9, <1>10 DEF IInv

LEMMA TypeStep == IInv /\ [Next]_vars => TypeOK'
<1> SUFFICES ASSUME IInv, [Next]_vars PROVE TypeOK'
  OBVIOUS
<1>0. TypeOK /\ Holding
  BY DEF IInv
<1>1. CASE InitSubSystems
  <2>1. /\ leaked' \in [Names -> 0 .. MaxFiles]
        /\ pool' \in [Names -> Seq({"good", "broken"})] /\ \A d \in Names : Len(pool'[d]) <= Clients
    BY <1>1, BootBudget
  <2>2. boot \in 1 .. Len(Deps) /\ Len(Deps) \in Nat
        /\ BootStep(Deps[boot]) /\ UNCHANGED <<up, cacheUp, pc, dep, client, rows>>
    BY <1>0, <1>1, BootCases, NamesOfDeps
  <2>3. boot' \in {boot, boot + 1} /\ step' \in {"dial", "ping", "set"}
    BY <2>2 DEF BootStep, Retry
  <2>4. boot' \in 1 .. Len(Deps) + 1
    BY <2>2, <2>3
  <2>5. \A d \in Names : InUse(d)' <= MaxOpen
    BY <1>0, <2>2, SameConnections DEF TypeOK
  <2> QED  BY <1>0, <2>1, <2>2, <2>3, <2>4, <2>5 DEF TypeOK
<1>2. ASSUME NEW u \in Users, UserStep(u) PROVE TypeOK'
  <2>1. \A d \in Names : InUse(d)' <= MaxOpen
    BY <1>0, <1>2, UserConnections
  <2>2. Deps[1] \in Names /\ Clients \in Nat /\ MaxRows \in Nat
    BY NamesOfDeps, ClientsAssumption
  <2>3. /\ pool' \in [Names -> Seq({"good", "broken"})]
        /\ \A d \in Names : Len(pool'[d]) <= Clients
        /\ client' \in [Users -> {"good", "broken", NoClient}]
    <3>1. CASE TakeClient(u)
      <4> DEFINE d == dep[u]
      <4>1. /\ pool' \in [Names -> Seq({"good", "broken"})] /\ d \in Names
            /\ Len(pool[d]) \in Nat \ {0} /\ Len(pool'[d]) = Len(pool[d]) - 1
            /\ client' = [client EXCEPT ![u] = client'[u]] /\ client'[u] \in {"good", "broken"}
        BY <1>0, <3>1, Taken
      <4>2. \A e \in Names \ {d} : pool'[e] = pool[e]
        BY <1>0, <1>2, UserStepOthers
      <4>3. Len(pool[d]) <= Clients
        BY <1>0, <4>1 DEF TypeOK
      <4>4. Len(pool'[d]) <= Clients
        BY <2>2, <4>1, <4>3
      <4> QED  BY <1>0, <4>1, <4>2, <4>4 DEF TypeOK
    <3>2. CASE PutClient(u)
      <4> DEFINE d == dep[u]
      <4>1. /\ pool' \in [Names -> Seq({"good", "broken"})] /\ d \in Names
            /\ Len(pool[d]) \in Nat /\ Len(pool'[d]) = Len(pool[d]) + 1 /\ Len(pool[d]) < Clients
            /\ client' = [client EXCEPT ![u] = NoClient]
        BY <1>0, <3>2, PutBack
      <4>2. \A e \in Names \ {d} : pool'[e] = pool[e]
        BY <1>0, <1>2, UserStepOthers
      <4>3. Len(pool'[d]) <= Clients
        BY <2>2, <4>1
      <4> QED  BY <1>0, <4>1, <4>2, <4>3 DEF TypeOK
    <3>3. CASE UNCHANGED <<pool, client>>
      BY <1>0, <3>3 DEF TypeOK
    <3> QED
      BY <1>2, <3>1, <3>2, <3>3
      DEF UserStep, Ends, Begin, TakeConn, BeginExec, Call, Query, NextRow, EndExec, CloseRows
  <2>4. pc' \in [Users -> Busy \cup {"idle"}]
    BY <1>0, <1>2 DEF TypeOK, UserStep, Ends, Begin, TakeClient, TakeConn, BeginExec, Call, PutClient,
       Query, NextRow, EndExec, CloseRows, Goto, Finish, Busy
  <2>5. dep' \in [Users -> Names]
    BY <1>0, <1>2, <2>2 DEF TypeOK, UserStep, Ends, Begin, TakeClient, TakeConn, BeginExec, Call, PutClient,
       Query, NextRow, EndExec, CloseRows, Finish
  <2>6. rows' \in [Users -> 0 .. MaxRows]
    <3>1. rows \in [Users -> 0 .. MaxRows] /\ rows[u] \in 0 .. MaxRows /\ 0 \in 0 .. MaxRows
      BY <1>0, <2>2 DEF TypeOK
    <3>2. CASE UNCHANGED rows
      BY <3>1, <3>2
    <3>3. CASE \E n \in 0 .. MaxRows : rows' = [rows EXCEPT ![u] = n]
      BY <3>1, <3>3
    <3>4. CASE NextRow(u)
      <4>1. rows[u] - 1 \in 0 .. MaxRows /\ rows' = [rows EXCEPT ![u] = rows[u] - 1]
        BY <2>2, <3>1, <3>4 DEF NextRow
      <4> QED  BY <3>1, <4>1
    <3> QED
      BY <1>2, <3>1, <3>2, <3>3, <3>4
      DEF UserStep, Ends, Begin, TakeClient, TakeConn, BeginExec, Call, PutClient, Query, EndExec, CloseRows
  <2>7. UNCHANGED <<up, cacheUp, boot, step, leaked>>
    BY <1>0, <1>2, UserStepOthers
  <2> QED  BY <1>0, <2>1, <2>3, <2>4, <2>5, <2>6, <2>7 DEF TypeOK
<1>3. ASSUME NEW d \in Names, BackendDown(d) PROVE TypeOK'
  <2>1. /\ pool' \in [Names -> Seq({"good", "broken"})]
        /\ \A e \in Names : Len(pool'[e]) = Len(pool[e])
        /\ (Kind[d] = "fb" /\ leaked' = [leaked EXCEPT ![d] = 0]) \/ UNCHANGED leaked
        /\ client' \in [Users -> {"good", "broken", NoClient}]
        /\ up' = up \ {d} /\ UNCHANGED <<cacheUp, boot, step, pc, dep, rows>>
    BY <1>0, <1>3, Broken
  <2>2. leaked' \in [Names -> 0 .. MaxFiles]
    <3>1. 0 \in 0 .. MaxFiles
      BY ClientsAssumption
    <3> QED  BY <1>0, <2>1, <3>1 DEF TypeOK
  <2>3. \A e \in Names : InUse(e)' <= MaxOpen
    BY <1>0, <2>1, SameConnections DEF TypeOK
  <2> QED  BY <1>0, <2>1, <2>2, <2>3 DEF TypeOK
<1>4. CASE /\ (\E d \in Names : BackendUp(d)) \/ UNCHANGED up
           /\ UNCHANGED <<bootVars, pool, userVars>>
           /\ cacheUp' \in {cacheUp, ~cacheUp}
  <2>1. up' \subseteq Names
    BY <1>0, <1>4 DEF TypeOK, BackendUp
  <2>2. \A d \in Names : InUse(d)' <= MaxOpen
    BY <1>0, <1>4, SameConnections DEF TypeOK, userVars
  <2> QED  BY <1>0, <1>4, <2>1, <2>2 DEF TypeOK, bootVars, userVars
<1> QED  BY <1>1, <1>2, <1>3, <1>4, Steps

LEMMA UserStepBooted ==
  ASSUME IInv, NEW u \in Users, UserStep(u)
  PROVE  Booted /\ boot = Len(Deps) + 1 /\ Len(Deps) \in Nat
<1>1. Booted
  BY DEF IInv, Quiet, UserStep, Ends, Begin, TakeClient, TakeConn, BeginExec, Call, PutClient,
         Query, NextRow, EndExec, CloseRows
<1>2. boot \in 1 .. Len(Deps) + 1 /\ Len(Deps) \in Nat
  BY NamesOfDeps DEF IInv, TypeOK
<1> QED  BY <1>1, <1>2 DEF Booted

LEMMA QuietStep == IInv /\ [Next]_vars => Quiet'
<1> SUFFICES ASSUME IInv, [Next]_vars PROVE Quiet'
  OBVIOUS
<1>0. TypeOK /\ Quiet
  BY DEF IInv
<1>1. CASE InitSubSystems
  BY <1>0, <1>1 DEF Quiet, InitSubSystems, userVars
<1>2. ASSUME NEW u \in Users, UserStep(u) PROVE Quiet'
  <2>1. Booted /\ UNCHANGED boot
    BY <1>0, <1>2, UserStepBooted, UserStepOthers
  <2> QED  BY <2>1 DEF Quiet, Booted
<1>3. ASSUME NEW d \in Names, BackendDown(d) PROVE Quiet'
  BY <1>0, <1>3 DEF Quiet, Booted, BackendDown
<1>4. CASE UNCHANGED <<bootVars, pool, userVars>>
  BY <1>0, <1>4 DEF Quiet, Booted, bootVars, userVars
<1> QED  BY <1>1, <1>2, <1>3, <1>4, Steps

LEMMA StartingStep == IInv /\ [Next]_vars => Starting'
<1> SUFFICES ASSUME IInv, [Next]_vars PROVE Starting'
  OBVIOUS
<1>0. TypeOK /\ Starting /\ Holding
  BY DEF IInv
<1>00. /\ Len(Deps) \in Nat \ {0} /\ Clients \in Nat \ {0}
       /\ \A i \in 1 .. Len(Deps) : Deps[i] \in Names
       /\ \A i, j \in 1 .. Len(Deps) : Deps[i] = Deps[j] => i = j
       /\ Kind \in [Names -> {"fb", "mysql"}] /\ pool \in [Names -> Seq({"good", "broken"})]
       /\ Len(<<>>) = 0
  BY <1>0, NamesOfDeps, DepsAssumption, ClientsAssumption DEF TypeOK
<1>1. CASE InitSubSystems
  <2> DEFINE d == Deps[boot]
  <2>1. boot \in 1 .. Len(Deps) /\ d \in Names /\ BootStep(d) /\ ~Booted
    BY <1>0, <1>1, BootCases DEF InitSubSystems
  <2>2. /\ \A i \in boot + 1 .. Len(Deps) : pool[Deps[i]] = <<>> /\ i \in 1 .. Len(Deps) /\ Deps[i] # d
        /\ \A e \in Names : Kind[e] = "mysql" => pool[e] = <<>>
        /\ Kind[d] = "fb" => IF step = "dial" THEN Len(pool[d]) < Clients ELSE Len(pool[d]) = Clients
    BY <1>0, <1>00, <2>1 DEF Starting
  <2>3. CASE /\ step = "dial" /\ Kind[d] = "mysql" /\ step' = "ping"
             /\ UNCHANGED <<boot, leaked, pool>>
    BY <2>2, <2>3 DEF Starting
  <2>4. CASE Retry(d)
    <3>1. step' = "dial" /\ UNCHANGED boot /\ pool'[d] = <<>> /\ \A e \in Names \ {d} : pool'[e] = pool[e]
      BY <1>00, <2>1, <2>4 DEF Retry
    <3> QED  BY <1>00, <2>1, <2>2, <3>1 DEF Starting
  <2>5. CASE /\ step = "dial" /\ Kind[d] = "fb" /\ d \in up /\ Files < MaxFiles
             /\ step' = (IF Len(pool[d]) + 1 = Clients THEN "ping" ELSE "dial")
             /\ pool' = [pool EXCEPT ![d] = Append(@, "good")]
             /\ UNCHANGED <<boot, leaked>>
    <3>1. /\ Len(pool'[d]) = Len(pool[d]) + 1 /\ Len(pool[d]) \in Nat
          /\ \A e \in Names \ {d} : pool'[e] = pool[e]
      <4>1. pool[d] \in Seq({"good", "broken"}) /\ pool'[d] = Append(pool[d], "good")
        BY <1>00, <2>1, <2>5
      <4>2. Len(pool'[d]) = Len(pool[d]) + 1 /\ Len(pool[d]) \in Nat
        BY <4>1
      <4> QED  BY <1>00, <2>1, <2>5, <4>2
    <3>2. IF step' = "dial" THEN Len(pool'[d]) < Clients ELSE Len(pool'[d]) = Clients
      BY <1>00, <2>2, <2>5, <3>1
    <3> QED  BY <1>00, <2>1, <2>2, <2>5, <3>1, <3>2 DEF Starting
  <2>6. CASE /\ step = "ping" /\ step' = "set" /\ (Kind[d] = "mysql" => Files < MaxFiles)
             /\ UNCHANGED <<boot, leaked, pool>>
    BY <2>2, <2>6 DEF Starting
  <2>7. CASE /\ step = "set" /\ step' = "dial" /\ boot' = boot + 1
             /\ UNCHANGED <<leaked, pool>>
    <3>1. \A i \in boot' + 1 .. Len(Deps) : i \in boot + 1 .. Len(Deps)
      BY <1>00, <2>1, <2>7
    <3>2. ~Booted' => boot' \in boot + 1 .. Len(Deps)
      BY <1>00, <2>1, <2>7 DEF Booted
    <3> QED  BY <1>00, <2>2, <2>7, <3>1, <3>2 DEF Starting
  <2> QED  BY <2>1, <2>3, <2>4, <2>5, <2>6, <2>7 DEF BootStep
<1>2. ASSUME NEW u \in Users, UserStep(u) PROVE Starting'
  <2>1. Booted /\ boot = Len(Deps) + 1 /\ UNCHANGED boot
    BY <1>0, <1>2, UserStepBooted, UserStepOthers
  <2>2. ASSUME NEW e \in Names, Kind[e] = "mysql" PROVE pool'[e] = <<>>
    <3>1. pool[e] = <<>>
      BY <1>0, <2>2 DEF Starting
    <3>2. CASE TakeClient(u)
      BY <1>0, <1>2, <2>2, <3>1, <3>2, UserStepOthers DEF TakeClient
    <3>3. CASE PutClient(u)
      BY <1>0, <1>2, <2>2, <3>1, <3>3, UserStepOthers, PutBack
    <3>4. CASE UNCHANGED pool
      BY <3>1, <3>4
    <3> QED
      BY <1>2, <3>2, <3>3, <3>4
      DEF UserStep, Ends, Begin, TakeConn, BeginExec, Call, Query, NextRow, EndExec, CloseRows
  <2>3. \A i \in boot' + 1 .. Len(Deps) : FALSE
    BY <1>00, <2>1
  <2> QED  BY <2>1, <2>2, <2>3 DEF Starting, Booted
<1>3. ASSUME NEW d \in Names, BackendDown(d) PROVE Starting'
  <2>1. /\ pool' \in [Names -> Seq({"good", "broken"})]
        /\ \A e \in Names : Len(pool'[e]) = Len(pool[e])
        /\ UNCHANGED <<boot, step>>
    BY <1>0, <1>3, Broken
  <2>2. \A e \in Names : pool[e] = <<>> => pool'[e] = <<>>
    <3>1. \A s \in Seq({"good", "broken"}) : Len(s) = 0 => s = <<>>
      OBVIOUS
    <3> QED  BY <1>00, <2>1, <3>1
  <2>3. \A i \in boot + 1 .. Len(Deps) : Deps[i] \in Names
    BY <1>0, <1>00 DEF TypeOK
  <2>4. ~Booted => Deps[boot] \in Names
    BY <1>0, <1>00 DEF TypeOK, Booted
  <2> QED  BY <1>0, <2>1, <2>2, <2>3, <2>4 DEF Starting, Booted
<1>4. CASE UNCHANGED <<bootVars, pool, userVars>>
  BY <1>0, <1>4 DEF Starting, Booted, bootVars
<1> QED  BY <1>1, <1>2, <1>3, <1>4, Steps

LEMMA HoldingStep == IInv /\ [Next]_vars => Holding'
<1> SUFFICES ASSUME IInv, [Next]_vars PROVE Holding'
  OBVIOUS
<1>0. TypeOK /\ Holding
  BY DEF IInv
<1>1. CASE InitSubSystems
  BY <1>0, <1>1 DEF Holding, InitSubSystems, userVars
<1>2. ASSUME NEW u \in Users, UserStep(u) PROVE Holding'
  <2>1. \A v \in Users \ {u} : pc'[v] = pc[v] /\ dep'[v] = dep[v] /\ client'[v] = client[v]
    BY <1>0, <1>2, UserStepOthers
  <2>2. pc'[u] \in {"call", "put"} => Kind[dep'[u]] = "fb" /\ client'[u] \in {"good", "broken"}
    <3>1. pc \in [Users -> Busy \cup {"idle"}]
      BY <1>0 DEF TypeOK
    <3>2. CASE TakeClient(u)
      BY <1>0, <3>1, <3>2, Taken
    <3>3. CASE Call(u)
      BY <1>0, <3>1, <3>3 DEF Call, Holding, Goto
    <3>4. pc'[u] \notin {"call", "put"} \/ TakeClient(u) \/ Call(u)
      BY <1>2, <3>1 DEF UserStep, Ends, Begin, TakeConn, BeginExec, PutClient,
         Query, NextRow, EndExec, CloseRows, Goto, Finish
    <3> QED  BY <3>2, <3>3, <3>4
  <2> QED  BY <1>0, <2>1, <2>2 DEF Holding
<1>3. ASSUME NEW d \in Names, BackendDown(d) PROVE Holding'
  <2>1. /\ \A u \in Users : client'[u] = client[u] \/ client'[u] = "broken"
        /\ UNCHANGED <<pc, dep>>
    BY <1>0, <1>3, Broken
  <2> QED  BY <1>0, <2>1 DEF Holding
<1>4. CASE UNCHANGED <<bootVars, pool, userVars>>
  BY <1>0, <1>4 DEF Holding, userVars
<1> QED  BY <1>1, <1>2, <1>3, <1>4, Steps

LEMMA DeadStep == IInv /\ [Next]_vars => Dead'
<1> SUFFICES ASSUME IInv, [Next]_vars, NEW d \in Names \ up'
             PROVE  /\ \A i \in 1 .. Len(pool'[d]) : pool'[d][i] = "broken"
                    /\ \A u \in On(d, {"call", "put"})' : client'[u] = "broken"
  BY DEF Dead
<1>0. TypeOK /\ Holding /\ Starting /\ Dead
  BY DEF IInv
<1>1. ASSUME d \notin up
      PROVE  /\ \A i \in 1 .. Len(pool[d]) : pool[d][i] = "broken"
             /\ \A u \in On(d, {"call", "put"}) : client[u] = "broken"
  BY <1>0, <1>1 DEF Dead
<1>2. CASE InitSubSystems
  <2> DEFINE e == Deps[boot]
  <2>1. e \in Names /\ BootStep(e) /\ UNCHANGED <<up, pc, dep, client>>
    BY <1>0, <1>2, BootCases
  <2>2. pool'[d] = pool[d] \/ pool'[d] = <<>>
    <3> HIDE DEF e
    <3> QED  BY <1>0, <2>1 DEF BootStep, Retry, TypeOK
  <2>3. \A u \in On(d, {"call", "put"})' : client'[u] = "broken"
    BY <1>1, <2>1 DEF On
  <2> QED  BY <1>1, <2>1, <2>2, <2>3
<1>3. ASSUME NEW u \in Users, UserStep(u)
      PROVE  /\ \A i \in 1 .. Len(pool'[d]) : pool'[d][i] = "broken"
             /\ \A v \in On(d, {"call", "put"})' : client'[v] = "broken"
  <2>1. /\ \A v \in Users \ {u} : pc'[v] = pc[v] /\ dep'[v] = dep[v] /\ client'[v] = client[v]
        /\ \A f \in Names \ {dep[u]} : pool'[f] = pool[f]
        /\ UNCHANGED up
    BY <1>0, <1>3, UserStepOthers
  <2>2. \A v \in Users \ {u} : v \in On(d, {"call", "put"})' => client'[v] = "broken"
    BY <1>1, <2>1 DEF On
  <2>3. CASE TakeClient(u)
    <3>1. /\ dep' = dep /\ Len(pool[dep[u]]) \in Nat \ {0} /\ client'[u] = pool[dep[u]][1]
          /\ \A i \in 1 .. Len(pool'[dep[u]]) :
               i + 1 \in 1 .. Len(pool[dep[u]]) /\ pool'[dep[u]][i] = pool[dep[u]][i + 1]
      BY <1>0, <2>3, Taken
    <3>2. \A i \in 1 .. Len(pool'[d]) : pool'[d][i] = "broken"
      BY <1>1, <2>1, <3>1, SMTT(30)
    <3>3. u \in On(d, {"call", "put"})' => client'[u] = "broken"
      <4>1. u \in On(d, {"call", "put"})' => dep[u] = d
        BY <3>1 DEF On
      <4> QED  BY <1>1, <2>1, <3>1, <4>1
    <3> QED  BY <2>2, <3>2, <3>3 DEF On
  <2>4. CASE PutClient(u)
    <3>1. /\ pc[u] = "put" /\ pc' = [pc EXCEPT ![u] = "idle"]
          /\ \A i \in 1 .. Len(pool'[dep[u]]) :
               \/ i \in 1 .. Len(pool[dep[u]]) /\ pool'[dep[u]][i] = pool[dep[u]][i]
               \/ pool'[dep[u]][i] = client[u]
      BY <1>0, <2>4, PutBack
    <3>2. dep[u] = d => client[u] = "broken"
      BY <1>1, <2>1, <3>1 DEF On
    <3>3. \A i \in 1 .. Len(pool'[d]) : pool'[d][i] = "broken"
      BY <1>1, <2>1, <3>1, <3>2
    <3>4. u \notin On(d, {"call", "put"})'
      BY <1>0, <3>1 DEF On, TypeOK
    <3> QED  BY <2>2, <3>3, <3>4 DEF On
  <2>5. CASE UNCHANGED <<pool, client>> /\ (pc'[u] \in {"call", "put"} => pc[u] = "call" /\ dep'[u] = dep[u])
    <3>1. u \in On(d, {"call", "put"})' => client'[u] = "broken"
      BY <1>1, <2>1, <2>5 DEF On
    <3> QED  BY <1>1, <2>1, <2>2, <2>5, <3>1 DEF On
  <2>6. pc \in [Users -> Busy \cup {"idle"}]
    BY <1>0 DEF TypeOK
  <2>7. CASE Call(u)
    BY <2>5, <2>6, <2>7 DEF Call, Goto
  <2> QED
    BY <1>3, <2>3, <2>4, <2>5, <2>6, <2>7
    DEF UserStep, Ends, Begin, TakeConn, BeginExec, Query, NextRow, EndExec, CloseRows, Goto, Finish
<1>4. ASSUME NEW e \in Names, BackendDown(e)
      PROVE  /\ \A i \in 1 .. Len(pool'[d]) : pool'[d][i] = "broken"
             /\ \A u \in On(d, {"call", "put"})' : client'[u] = "broken"
  <2>1. /\ \A f \in Names \ {e} : pool'[f] = pool[f]
        /\ Kind[e] = "fb" => \A i \in 1 .. Len(pool'[e]) : pool'[e][i] = "broken"
        /\ Kind[e] # "fb" => UNCHANGED <<pool, client>>
        /\ \A u \in Users : \/ client'[u] = client[u] /\ ~(Kind[e] = "fb" /\ dep[u] = e /\ client[u] = "good")
                            \/ client'[u] = "broken"
        /\ up' = up \ {e} /\ UNCHANGED <<pc, dep>>
    BY <1>0, <1>4, Broken
  <2>2. \A u \in On(d, {"call", "put"}) : Kind[d] = "fb" /\ client[u] \in {"good", "broken"}
    BY <1>0 DEF Holding, On
  <2>3. On(d, {"call", "put"})' = On(d, {"call", "put"})
    BY <2>1 DEF On
  <2>4. CASE d \notin up
    BY <1>1, <2>1, <2>2, <2>3, <2>4 DEF On
  <2>5. CASE d = e
    <3>1. \A i \in 1 .. Len(pool'[d]) : pool'[d][i] = "broken"
      <4>1. CASE Kind[d] = "fb"
        BY <2>1, <2>5, <4>1
      <4>2. CASE Kind[d] # "fb"
        <5>1. pool'[d] = <<>>
          BY <1>0, <2>1, <2>5, <4>2, DepsAssumption DEF Starting
        <5> QED  BY <5>1
      <4> QED  BY <4>1, <4>2
    <3> QED  BY <2>1, <2>2, <2>3, <2>5, <3>1 DEF On
  <2> QED  BY <2>1, <2>4, <2>5
<1>5. CASE /\ (\E e \in Names : BackendUp(e)) \/ UNCHANGED up
           /\ UNCHANGED <<bootVars, pool, userVars>>
  <2>1. d \notin up
    BY <1>5 DEF BackendUp
  <2> QED  BY <1>1, <1>5, <2>1 DEF On, userVars
<1> QED  BY <1>2, <1>3, <1>4, <1>5, Steps

LEMMA BudgetStep == IInv /\ [Next]_vars => Budget'
<1> SUFFICES ASSUME IInv, [Next]_vars PROVE Budget'
  OBVIOUS
<1>0. TypeOK /\ Budget /\ PoolsOK /\ FilesOK
  BY PoolsOKByType, FilesType DEF IInv
<1>1. CASE InitSubSystems
  BY <1>1, BootBudget
<1>2. ASSUME NEW u \in Users, UserStep(u) PROVE Budget'
  <2>1. Booted /\ UNCHANGED <<boot, leaked>>
    BY <1>0, <1>2, UserStepBooted, UserStepOthers
  <2> QED  BY <1>0, <2>1 DEF Budget, Booted
<1>3. ASSUME NEW d \in Names, BackendDown(d) PROVE Budget'
  <2>1. /\ pool' \in [Names -> Seq({"good", "broken"})]
        /\ \A e \in Names : Len(pool'[e]) = Len(pool[e])
        /\ \A e \in Names \ {d} : pool'[e] = pool[e]
        /\ Kind[d] = "fb" => leaked' = [leaked EXCEPT ![d] = 0]
        /\ Kind[d] # "fb" => UNCHANGED <<pool, leaked>>
        /\ UNCHANGED <<boot, step>>
    BY <1>0, <1>3, Broken
  <2>2. CASE Kind[d] = "fb"
    <3>1. leaked' \in [Names -> Nat] /\ leaked'[d] = 0 /\ \A e \in Names \ {d} : leaked'[e] = leaked[e]
      BY <1>0, <2>1, <2>2 DEF PoolsOK
    <3>2. PoolsOK'
      BY <2>1, <3>1 DEF PoolsOK
    <3>3. /\ Files' = Files - leaked[d] + leaked'[d] - Len(pool[d]) + Len(pool'[d])
          /\ SumFunction(leaked') = SumFunction(leaked) - leaked[d] + leaked'[d]
      BY <1>0, <2>1, <3>1, <3>2, FilesChange
    <3> DEFINE size == Len(pool[d])
               before == leaked[d]
               l == SumFunction(leaked)
    <3>4. size \in Nat /\ before \in Nat /\ l \in Nat /\ Files \in Nat /\ MaxFiles \in Nat
      BY <1>0, ClientsAssumption DEF FilesOK
    <3>5. Files' = Files - before + 0 - size + size /\ SumFunction(leaked') = l - before + 0
      BY <2>1, <3>1, <3>3
    <3>6. /\ l <= MaxFiles
          /\ ~Booted => Files <= MaxFiles /\ (step = "set" /\ Kind[Deps[boot]] = "mysql" => Files < MaxFiles)
      BY <1>0 DEF Budget
    <3> HIDE DEF size, before, l
    <3>7. Files' <= Files /\ SumFunction(leaked') <= MaxFiles /\ Files' \in Int
      BY <3>4, <3>5, <3>6
    <3> QED  BY <2>1, <3>4, <3>6, <3>7 DEF Budget, Booted
  <2>3. CASE Kind[d] # "fb"
    BY <1>0, <2>1, <2>3 DEF Budget, Booted, Files
  <2> QED  BY <2>2, <2>3
<1>4. CASE UNCHANGED <<bootVars, pool, userVars>>
  BY <1>0, <1>4 DEF Budget, Booted, Files, bootVars
<1> QED  BY <1>1, <1>2, <1>3, <1>4, Steps

LEMMA AccountedStep == IInv /\ [Next]_vars => ClientsAccounted'
<1> DEFINE Held(d) == Cardinality(On(d, {"call", "put"}))
<1> SUFFICES ASSUME IInv, [Next]_vars, NEW i \in DOMAIN Deps, i < boot', Kind[Deps[i]] = "fb"
             PROVE  (Len(pool[Deps[i]]) + Held(Deps[i]) = Clients)'
  <2>1. ASSUME IInv, [Next]_vars, NEW i \in DOMAIN Deps, i < boot', Kind[Deps[i]] = "fb",
               (Len(pool[Deps[i]]) + Held(Deps[i]) = Clients)'
        PROVE  (LET d == Deps[i] IN
                  /\ Len(pool[d]) + Cardinality(On(d, {"call", "put"})) = Clients
                  /\ d \notin up => \A u \in On(d, {"call", "put"}) : client[u] = "broken")'
    <3>1. Dead' /\ Deps[i] \in Names
      BY <2>1, DeadStep, NamesOfDeps
    <3> QED  BY <2>1, <3>1 DEF Dead
  <2> QED  BY <2>1 DEF ClientsAccounted
<1>1. TypeOK /\ Holding /\ Starting /\ Quiet /\ ClientsAccounted
  BY DEF IInv
<1> DEFINE d == Deps[i]
<1>2. \A e : Held(e) \in Nat /\ Held(e)' \in Nat
  BY OnType
<1>3. /\ Len(Deps) \in Nat \ {0} /\ boot \in 1 .. Len(Deps) + 1
      /\ \A j \in 1 .. Len(Deps) : Deps[j] \in Names
      /\ \A j, k \in 1 .. Len(Deps) : Deps[j] = Deps[k] => j = k
  BY <1>1, NamesOfDeps DEF TypeOK
<1>4. i < boot => Len(pool[d]) + Held(d) = Clients
  BY <1>1 DEF ClientsAccounted
<1>5. ASSUME i < boot, UNCHANGED <<pc, dep>>, Len(pool'[d]) = Len(pool[d])
      PROVE  (Len(pool[d]) + Held(d) = Clients)'
  <2>1. Held(d)' = Held(d)
    BY <1>5 DEF On
  <2> QED  BY <1>4, <1>5, <2>1
<1>6. CASE InitSubSystems
  <2>1. /\ boot \in 1 .. Len(Deps) /\ Deps[boot] \in Names /\ BootStep(Deps[boot])
        /\ ~Booted /\ UNCHANGED <<pc, dep>>
    BY <1>1, <1>6, BootCases DEF InitSubSystems
  <2>2. CASE i < boot
    <3>1. d # Deps[boot] /\ d \in Names
      BY <1>3, <2>1, <2>2
    <3>2. pool'[d] = pool[d]
      BY <1>1, <2>1, <3>1 DEF BootStep, Retry, TypeOK
    <3> QED  BY <1>5, <2>1, <2>2, <3>2
  <2>3. CASE ~(i < boot)
    <3>1. boot' \in {boot, boot + 1}
      BY <2>1 DEF BootStep, Retry
    <3>2. i = boot /\ boot' = boot + 1
      <4>1. boot \in Int /\ boot' \in Int
        BY <1>3, <3>1
      <4>2. i \in Int
        BY <1>3
      <4> QED  BY <2>3, <3>1, <4>1, <4>2
    <3>3. step = "set" /\ UNCHANGED pool
      BY <1>3, <2>1, <3>2 DEF BootStep, Retry
    <3>4. Len(pool'[d]) = Clients
      BY <1>1, <2>1, <3>2, <3>3 DEF Starting
    <3>5. On(d, {"call", "put"})' = {}
      BY <1>1, <2>1 DEF Quiet, On
    <3>6. Held(d)' = 0
      BY <3>5, FS_EmptySet
    <3> QED  BY <3>4, <3>6, ClientsAssumption
  <2> QED  BY <2>2, <2>3
<1>7. ASSUME NEW u \in Users, UserStep(u) PROVE (Len(pool[d]) + Held(d) = Clients)'
  <2>1. /\ \A v \in Users \ {u} : pc'[v] = pc[v] /\ dep'[v] = dep[v]
        /\ \A f \in Names \ {dep[u]} : pool'[f] = pool[f]
    BY <1>1, <1>7, UserStepOthers
  <2>2. boot' = boot
    BY <1>1, <1>7, UserStepOthers
  <2>3. d \in Names /\ Len(pool[d]) + Held(d) = Clients /\ Clients \in Nat /\ Len(pool[d]) \in Nat
    <3>1. d \in Names
      BY <1>3, <2>2
    <3> QED  BY <1>1, <1>4, <2>2, <3>1, ClientsAssumption DEF TypeOK
  <2>4. Held(d)' = Held(d) - (IF u \in On(d, {"call", "put"}) THEN 1 ELSE 0)
                           + (IF u \in On(d, {"call", "put"})' THEN 1 ELSE 0)
    BY <2>1, OnChange
  <2>5. pc \in [Users -> Busy \cup {"idle"}] /\ dep \in [Users -> Names]
    BY <1>1 DEF TypeOK
  <2>6. CASE TakeClient(u)
    <3>1. /\ pc[u] = "take" /\ pc' = [pc EXCEPT ![u] = "call"] /\ dep' = dep
          /\ Len(pool[dep[u]]) \in Nat \ {0} /\ Len(pool'[dep[u]]) = Len(pool[dep[u]]) - 1
      BY <1>1, <2>6, Taken
    <3>2. u \notin On(d, {"call", "put"}) /\ (u \in On(d, {"call", "put"})' <=> dep[u] = d)
      BY <2>5, <3>1 DEF On
    <3>3. CASE dep[u] = d
      <4>1. Held(d)' = Held(d) + 1 /\ Len(pool'[d]) = Len(pool[d]) - 1
        BY <1>2, <2>4, <3>1, <3>2, <3>3
      <4> HIDE DEF Held
      <4>2. Len(pool'[d]) + Held(d)' = Clients
        BY <1>2, <2>3, <4>1
      <4> QED  BY <4>2
    <3>4. CASE dep[u] # d
      <4>1. Held(d)' = Held(d) /\ pool'[d] = pool[d]
        BY <1>2, <2>1, <2>3, <2>4, <3>2, <3>4
      <4> QED  BY <2>3, <4>1
    <3> QED  BY <3>3, <3>4
  <2>7. CASE PutClient(u)
    <3>1. /\ pc[u] = "put" /\ pc' = [pc EXCEPT ![u] = "idle"]
          /\ Len(pool[dep[u]]) \in Nat /\ Len(pool'[dep[u]]) = Len(pool[dep[u]]) + 1
      BY <1>1, <2>7, PutBack
    <3>2. u \notin On(d, {"call", "put"})' /\ (u \in On(d, {"call", "put"}) <=> dep[u] = d)
      BY <2>5, <3>1 DEF On
    <3>3. CASE dep[u] = d
      <4>1. Held(d)' = Held(d) - 1 /\ Len(pool'[d]) = Len(pool[d]) + 1
        BY <1>2, <2>4, <3>1, <3>2, <3>3
      <4> HIDE DEF Held
      <4>2. Len(pool'[d]) + Held(d)' = Clients
        BY <1>2, <2>3, <4>1
      <4> QED  BY <4>2
    <3>4. CASE dep[u] # d
      <4>1. Held(d)' = Held(d) /\ pool'[d] = pool[d]
        BY <1>2, <2>1, <2>3, <2>4, <3>2, <3>4
      <4> QED  BY <2>3, <4>1
    <3> QED  BY <3>3, <3>4
  <2>8. CASE UNCHANGED pool /\ (u \in On(d, {"call", "put"})' <=> u \in On(d, {"call", "put"}))
    <3>1. Held(d)' = Held(d)
      BY <1>2, <2>4, <2>8
    <3> QED  BY <2>3, <2>8, <3>1
  <2>9. \/ TakeClient(u) \/ PutClient(u)
        \/ UNCHANGED pool /\ (u \in On(d, {"call", "put"})' <=> u \in On(d, {"call", "put"}))
    BY <1>7, <2>5 DEF UserStep, Ends, Begin, TakeConn, BeginExec, Call, Query, NextRow, EndExec, CloseRows,
       Goto, Finish, On
  <2> QED  BY <2>6, <2>7, <2>8, <2>9
<1>8. ASSUME NEW e \in Names, BackendDown(e) PROVE (Len(pool[d]) + Held(d) = Clients)'
  <2>1. (\A f \in Names : Len(pool'[f]) = Len(pool[f])) /\ UNCHANGED <<boot, pc, dep>>
    BY <1>1, <1>8, Broken
  <2>2. d \in Names
    BY <1>3, <2>1
  <2> QED  BY <1>5, <2>1, <2>2
<1>9. CASE UNCHANGED <<bootVars, pool, userVars>>
  BY <1>5, <1>9 DEF bootVars, userVars
<1> QED  BY <1>6, <1>7, <1>8, <1>9, Steps
-----------------------------------------------------------------------------
(* Whatever the backends and their users do, IInv holds. *)
THEOREM Invariant == Spec => []IInv
<1>1. IInv /\ [Next]_vars => IInv'
  BY TypeStep, QuietStep, StartingStep, HoldingStep, DeadStep, BudgetStep, AccountedStep DEF IInv
<1> QED  BY InitIInv, <1>1, PTL DEF Spec, Safety

(* Every variable has its type: no database uses more connections than it  *)
(* may, and the start leaks no more than there are descriptors.            *)
THEOREM TypeCorrect == Spec => []TypeOK
<1>1. IInv => TypeOK
  BY DEF IInv
<1> QED  BY <1>1, Invariant, PTL

(* Each client of a started fb subsystem is in its channel or with one     *)
(* user, so putting one back never blocks; while the backend is down none  *)
(* of them works.                                                          *)
THEOREM NoClientIsLost == Spec => []ClientsAccounted
<1>1. IInv => ClientsAccounted
  BY DEF IInv
<1> QED  BY <1>1, Invariant, PTL

(* The goroutine that puts a client back finds room in the channel, for    *)
(* any number of callers.                                                  *)
THEOREM PutNeverBlocks ==
  Spec => [](\A u \in Users : pc[u] = "put" => Len(pool[dep[u]]) < Clients)
<1>1. IInv => \A u \in Users : pc[u] = "put" => Len(pool[dep[u]]) < Clients
  <2> SUFFICES ASSUME IInv, NEW u \in Users, pc[u] = "put" PROVE Len(pool[dep[u]]) < Clients
    OBVIOUS
  <2> DEFINE d == dep[u]
             S == {"call", "put"}
  <2>1. TypeOK /\ Quiet /\ Holding /\ ClientsAccounted
    BY DEF IInv
  <2>2. d \in Names /\ Kind[d] = "fb" /\ Booted /\ boot \in 1 .. Len(Deps) + 1 /\ Len(pool[d]) \in Nat
    BY <2>1 DEF TypeOK, Quiet, Holding
  <2>3. PICK i \in DOMAIN Deps : i < boot /\ Deps[i] = d
    BY <2>2, NamesOfDeps DEF Booted
  <2>4. Len(pool[d]) + Cardinality(On(d, S)) = Clients
    BY <2>1, <2>2, <2>3 DEF ClientsAccounted
  <2>5. u \in On(d, S)
    BY DEF On
  <2>6. Cardinality(On(d, S)) \in Nat /\ Cardinality(On(d, S)) # 0
    <3> HIDE DEF S
    <3>1. IsFiniteSet(On(d, S)) /\ Cardinality(On(d, S)) \in Nat
      BY OnType
    <3> QED  BY <2>5, <3>1, FS_EmptySet
  <2> DEFINE size == Len(pool[d])
             held == Cardinality(On(d, S))
  <2>7. size \in Nat /\ held \in Nat \ {0} /\ size + held = Clients
    BY <2>2, <2>4, <2>6
  <2> HIDE DEF size, held
  <2>8. size < Clients
    BY <2>7
  <2> QED  BY <2>8 DEF size
<1> QED  BY <1>1, Invariant, PTL
=============================================================================

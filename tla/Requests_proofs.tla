-------------------------- MODULE Requests_proofs --------------------------
(***************************************************************************)
(* Proofs about the requests, where they are answered and where they come  *)
(* from.                                                                   *)
(* About ParseRequest, for all subsystems, requests and timeouts: type     *)
(* correctness, the accounting of results, the room in doneDeps, the bound *)
(* on the age of a request, the order of the layers, and that a call       *)
(* implements RequestPromise.                                              *)
(* About Requestor, for any number of clients and any traces: that each    *)
(* client is in one place, so that nobody blocks on putting one back, and  *)
(* that the counters of the closed loop count what is not sent.            *)
(***************************************************************************)
EXTENDS ParseRequest, Requestor, FiniteSetTheorems, SequenceTheorems, TLAPS

(* What is known of the results of the layers so far: all of the earlier   *)
(* layers, and those of the current layer that are no longer waited for.   *)
Answered ==
  /\ EarlierLayersAnswered
  /\ \A r \in got : r.at <= layer /\ r.tp \in layers[r.at]
  /\ pc = "layers" => \A r \in got : r.at < layer
  /\ pc \in {"wait", "report"} =>
       /\ layer <= Len(layers)
       /\ waiting # {}
       /\ waiting = {d \in layers[layer] \cap Subs :
                       ~ \E r \in got : r.at = layer /\ r.tp = d}

(* slowestDep is the dependency of a slowest result, if any took time. *)
SlowestSoFar ==
  /\ \A r \in got : r.lat <= slowestLat
  /\ slowestLat = 0 => slowestDep = NoDep
  /\ slowestLat # 0 => \E r \in got : r.tp = slowestDep /\ r.lat = slowestLat

(* The verdict that Finish will report. *)
Verdict ==
  /\ pc \in {"layers", "wait"} => SlowestSoFar /\ reqState = Promise!Worst(got)
  /\ pc = "report" => reqState = Error /\ slowestDep \in waiting
  /\ (outcome = NoOutcome) <=> (pc # "done")

(* Every receive buys at most one more timeout. *)
Paced ==
  /\ IsFiniteSet(got)
  /\ age <= Timeout * Cardinality(got) + timer
  /\ pc = "layers" => timer = 0

IInv == TypeOK /\ ResultsAccounted /\ Answered /\ Verdict /\ Paced
-----------------------------------------------------------------------------
Result == [tp : Subs, st : {Error, Miss, Hit}, lat : Int]

(* The measurement a call starts with is none, so Init satisfies IInv. *)
LEMMA InitIInv == Init => IInv
<1> SUFFICES ASSUME Init PROVE IInv
  OBVIOUS
<1> USE PlansAssumption, TimeoutAssumption DEF Init
<1>1. TypeOK
  BY EmptySeq DEF TypeOK, Hit, Miss, Error
<1>2. ResultsAccounted
  BY DEF ResultsAccounted, Tps
<1>3. Answered
  BY DEF Answered, EarlierLayersAnswered
<1>4. Verdict
  BY DEF Verdict, SlowestSoFar, Promise!Worst, Promise!Hit, Promise!Error,
         Promise!Miss, Hit
<1>5. Paced
  BY FS_EmptySet DEF Paced
<1> QED  BY <1>1, <1>2, <1>3, <1>4, <1>5 DEF IInv

(* What every action leaves of the types. *)
LEMMA TypeStep == IInv /\ [Next]_vars => TypeOK'
<1> SUFFICES ASSUME IInv, [Next]_vars PROVE TypeOK'
  OBVIOUS
<1> USE PlansAssumption, TimeoutAssumption, SubsAssumption
<1>0. TypeOK
  BY DEF IInv
<1>1. CASE SkipLayer
  BY <1>0, <1>1 DEF SkipLayer, TypeOK, clockVars, reportVars
<1>2. CASE Dispatch
  BY <1>0, <1>2 DEF Dispatch, TypeOK, reportVars
<1>3. ASSUME NEW d \in Subs, SubqueryReport(d) PROVE TypeOK'
  <2>1. PICK r \in Results(d) : doneDeps' = Append(doneDeps, r)
    BY <1>3 DEF SubqueryReport
  <2>2. r \in Result
    BY <1>0, <2>1 DEF Results, Result, TypeOK, Error, Miss, Hit
  <2> QED  BY <1>0, <1>3, <2>1, <2>2
              DEF SubqueryReport, TypeOK, Result, requestVars, clockVars, reportVars
<1>4. CASE Receive
  <2> DEFINE r == Head(doneDeps)
  <2>1. r \in Result /\ Tail(doneDeps) \in Seq(Result)
    BY <1>0, <1>4, HeadTailProperties DEF Receive, TypeOK, Result
  <2>2. layer \in 1 .. Len(layers)
    BY <1>0, <1>4 DEF Receive, IInv, Answered, TypeOK
  <2>3. got' \subseteq [at : 1 .. Len(layers), tp : Subs, st : {Error, Miss, Hit}, lat : Int]
    BY <1>0, <1>4, <2>1, <2>2 DEF Receive, TypeOK, Result
  <2>4. /\ slowestDep' \in Subs \cup {NoDep}
        /\ slowestLat' \in Nat
        /\ reqState' \in {Error, Miss, Hit}
    BY <1>0, <1>4, <2>1 DEF Receive, NoteSlowest, NextState, TypeOK, Result
  <2>5. layer' \in 1 .. Len(layers) + 1 /\ pc' \in {"layers", "wait", "report", "done"}
    BY <1>0, <1>4, <2>2 DEF Receive, TypeOK
  <2> QED  BY <1>0, <1>4, <2>1, <2>3, <2>4, <2>5 DEF Receive, TypeOK, Result, reportVars
<1>5. CASE TimeoutFires
  BY <1>0, <1>5 DEF TimeoutFires, TypeOK, clockVars, reportVars
<1>6. CASE Finish
  BY <1>0, <1>6 DEF Finish, TypeOK, clockVars
<1>7. CASE Tick
  BY <1>0, <1>7 DEF Tick, TypeOK, requestVars, reportVars
<1>8. CASE UNCHANGED vars
  BY <1>0, <1>8 DEF vars, TypeOK, requestVars, clockVars, reportVars
<1> QED  BY <1>1, <1>2, <1>3, <1>4, <1>5, <1>6, <1>7, <1>8 DEF Next, RequestStep

(* What the steps of the request's goroutine do to the accounting. *)
LEMMA AccountedStep == IInv /\ [Next]_vars => ResultsAccounted'
<1> SUFFICES ASSUME IInv, [Next]_vars PROVE ResultsAccounted'
  OBVIOUS
<1>0. TypeOK /\ ResultsAccounted
  BY DEF IInv
<1> DEFINE n == Len(doneDeps)
<1>a. doneDeps \in Seq(Result) /\ n \in Nat
  BY <1>0 DEF TypeOK, Result
<1>1. CASE SkipLayer
  BY <1>0, <1>1 DEF SkipLayer, ResultsAccounted, Tps
<1>2. CASE Dispatch
  <2>1. waiting = {} /\ running = {} /\ n = 0
    <3>1. \A i \in 1 .. n : doneDeps[i].tp \in waiting
      BY <1>0 DEF ResultsAccounted, Tps
    <3> QED  BY <1>0, <1>2, <1>a, <3>1 DEF ResultsAccounted, Dispatch
  <2> QED  BY <1>2, <2>1 DEF Dispatch, ResultsAccounted, Tps
<1>3. ASSUME NEW d \in Subs, SubqueryReport(d) PROVE ResultsAccounted'
  <2>1. PICK r \in Results(d) : doneDeps' = Append(doneDeps, r)
    BY <1>3 DEF SubqueryReport
  <2>2. r \in Result /\ r.tp = d
    BY <1>0, <2>1, TimeoutAssumption DEF Results, Result, TypeOK, Error, Miss, Hit
  <2>3. /\ Len(doneDeps') = n + 1
        /\ \A i \in 1 .. n : doneDeps'[i] = doneDeps[i]
        /\ doneDeps'[n + 1] = r
    BY <1>a, <2>1, <2>2
  <2>4. Tps(doneDeps') = Tps(doneDeps) \cup {d}
    BY <1>a, <2>2, <2>3 DEF Tps
  <2>5. d \notin Tps(doneDeps)
    BY <1>0, <1>3 DEF SubqueryReport, ResultsAccounted
  <2>6. \A i \in 1 .. n : doneDeps[i].tp # d
    BY <2>5 DEF Tps
  <2>7. \A i, j \in 1 .. n + 1 : doneDeps'[i].tp = doneDeps'[j].tp => i = j
    BY <1>0, <1>a, <2>2, <2>3, <2>6 DEF ResultsAccounted
  <2>8. waiting' = waiting /\ pc' = pc /\ running' = running \ {d} /\ d \in running
    BY <1>3 DEF SubqueryReport, requestVars
  <2>9. waiting' = running' \cup Tps(doneDeps') /\ running' \cap Tps(doneDeps') = {}
    BY <1>0, <2>4, <2>8 DEF ResultsAccounted
  <2>10. pc' = "layers" => waiting' = {}
    BY <1>0, <2>8 DEF ResultsAccounted
  <2> QED  BY <2>3, <2>7, <2>9, <2>10 DEF ResultsAccounted
<1>4. CASE Receive
  <2> DEFINE r == Head(doneDeps)
  <2>1. /\ n > 0 /\ r = doneDeps[1]
        /\ Len(doneDeps') = n - 1
        /\ \A i \in 1 .. n - 1 : doneDeps'[i] = doneDeps[i + 1]
    BY <1>4, <1>a, HeadTailProperties, EmptySeq DEF Receive
  <2>2. \A i \in 2 .. n : doneDeps[i].tp # r.tp
    BY <1>0, <1>a, <2>1 DEF ResultsAccounted
  <2>3. Tps(doneDeps') = Tps(doneDeps) \ {r.tp}
    <3>1. Tps(doneDeps') = {doneDeps[i + 1].tp : i \in 1 .. n - 1}
      BY <2>1 DEF Tps
    <3>2. {doneDeps[i + 1].tp : i \in 1 .. n - 1} = {doneDeps[i].tp : i \in 2 .. n}
      <4>1. \A i \in 1 .. n - 1 : i + 1 \in 2 .. n
        BY <1>a
      <4>2. \A i \in 2 .. n : i - 1 \in 1 .. n - 1 /\ (i - 1) + 1 = i
        BY <1>a
      <4> QED  BY <4>1, <4>2
    <3>3. Tps(doneDeps) = {doneDeps[i].tp : i \in 2 .. n} \cup {r.tp}
      BY <1>a, <2>1 DEF Tps
    <3> QED  BY <2>2, <3>1, <3>2, <3>3
  <2>4. \A i, j \in 1 .. n - 1 : doneDeps'[i].tp = doneDeps'[j].tp => i = j
    BY <1>0, <1>a, <2>1 DEF ResultsAccounted
  <2>5. waiting' = waiting \ {r.tp} /\ running' = running
    BY <1>4 DEF Receive
  <2>6. r.tp \in Tps(doneDeps)
    BY <1>a, <2>1 DEF Tps
  <2>7. waiting' = running' \cup Tps(doneDeps') /\ running' \cap Tps(doneDeps') = {}
    BY <1>0, <2>3, <2>5, <2>6 DEF ResultsAccounted
  <2>8. pc' = "layers" => waiting' = {}
    BY <1>4 DEF Receive
  <2> QED  BY <2>1, <2>4, <2>7, <2>8 DEF ResultsAccounted
<1>5. CASE TimeoutFires
  BY <1>0, <1>5 DEF TimeoutFires, ResultsAccounted, Tps
<1>6. CASE Finish
  BY <1>0, <1>6 DEF Finish, ResultsAccounted, Tps
<1>7. CASE Tick
  BY <1>0, <1>7 DEF Tick, ResultsAccounted, Tps, requestVars
<1>8. CASE UNCHANGED vars
  BY <1>0, <1>8 DEF vars, ResultsAccounted, Tps, requestVars
<1> QED  BY <1>1, <1>2, <1>3, <1>4, <1>5, <1>6, <1>7, <1>8 DEF Next, RequestStep

(* A received result is one that was waited for, and it is of the layer.   *)
LEMMA ReceivedIsOpen ==
  ASSUME IInv, Receive
  PROVE  /\ Head(doneDeps) \in Result
         /\ Head(doneDeps).tp \in waiting
         /\ layer \in 1 .. Len(layers)
         /\ Head(doneDeps).tp \in layers[layer] \cap Subs
         /\ \A r \in got : ~ (r.at = layer /\ r.tp = Head(doneDeps).tp)
<1>1. TypeOK /\ ResultsAccounted /\ Answered /\ pc = "wait"
  BY DEF IInv, Receive
<1>2. /\ Head(doneDeps) \in Result
      /\ Len(doneDeps) \in Nat \ {0}
      /\ Head(doneDeps) = doneDeps[1]
  <2>1. doneDeps \in Seq(Result) /\ doneDeps # <<>>
    BY <1>1 DEF TypeOK, Receive, Result
  <2> QED  BY <2>1, HeadTailProperties, EmptySeq
<1>3. Head(doneDeps).tp \in waiting
  BY <1>1, <1>2 DEF ResultsAccounted, Tps
<1>4. layer \in 1 .. Len(layers)
  BY <1>1, PlansAssumption DEF Answered, TypeOK
<1>5. waiting = {d \in layers[layer] \cap Subs :
                   ~ \E r \in got : r.at = layer /\ r.tp = d}
  BY <1>1 DEF Answered
<1>6. /\ Head(doneDeps).tp \in layers[layer] \cap Subs
      /\ \A r \in got : ~ (r.at = layer /\ r.tp = Head(doneDeps).tp)
  BY <1>3, <1>5
<1> QED  BY <1>2, <1>3, <1>4, <1>6

(* What every action leaves of the results of the layers. *)
LEMMA AnsweredStep == IInv /\ [Next]_vars => Answered'
<1> SUFFICES ASSUME IInv, [Next]_vars PROVE Answered'
  OBVIOUS
<1>0. TypeOK /\ ResultsAccounted /\ Answered
  BY DEF IInv
<1>a. Len(layers) \in Nat /\ layer \in Nat /\ \A r \in got : r.at \in Int
  BY <1>0, PlansAssumption DEF TypeOK
<1>1. CASE SkipLayer
  BY <1>0, <1>1, <1>a DEF SkipLayer, Answered, EarlierLayersAnswered
<1>2. CASE Dispatch
  <2>1. waiting' = layers[layer] \cap Subs /\ layer \in 1 .. Len(layers)
    BY <1>0, <1>2, <1>a DEF Dispatch, ResultsAccounted, TypeOK
  <2> QED  BY <1>0, <1>2, <1>a, <2>1 DEF Dispatch, Answered, EarlierLayersAnswered
<1>3. ASSUME NEW d \in Subs, SubqueryReport(d) PROVE Answered'
  BY <1>0, <1>3 DEF SubqueryReport, Answered, EarlierLayersAnswered, requestVars
<1>4. CASE Receive
  <2> DEFINE h == Head(doneDeps)
             g == [at |-> layer, tp |-> h.tp, st |-> h.st, lat |-> h.lat]
  <2>1. /\ h.tp \in waiting /\ layer \in 1 .. Len(layers)
        /\ h.tp \in layers[layer] \cap Subs
    BY <1>4, ReceivedIsOpen
  <2>2. got' = got \cup {g} /\ waiting' = waiting \ {h.tp} /\ layers' = layers
    BY <1>4 DEF Receive
  <2>3. waiting = {d \in layers[layer] \cap Subs :
                     ~ \E r \in got : r.at = layer /\ r.tp = d}
    BY <1>0, <1>4 DEF Receive, Answered
  <2>4. waiting' = {d \in layers[layer] \cap Subs :
                      ~ \E r \in got' : r.at = layer /\ r.tp = d}
    <3>1. g \in got' /\ g.at = layer /\ g.tp = h.tp
      BY <2>2
    <3>2. \A r \in got' : r \in got \/ r = g
      BY <2>2
    <3>3. \A d : (\E r \in got' : r.at = layer /\ r.tp = d)
                 <=> (d = h.tp \/ \E r \in got : r.at = layer /\ r.tp = d)
      BY <3>1, <3>2, <2>2
    <3> HIDE DEF g, h
    <3> QED  BY <2>2, <2>3, <3>3
  <2>5. CASE waiting' = {}
    <3>1. pc' = "layers" /\ layer' = layer + 1
      BY <1>4, <2>5 DEF Receive
    <3>2. \A d \in layers[layer] \cap Subs : \E r \in got' : r.at = layer /\ r.tp = d
      BY <2>4, <2>5
    <3>3. \A k \in 1 .. layer' - 1 : k \in 1 .. layer - 1 \/ k = layer
      BY <1>a, <2>1, <3>1
    <3>4. got \subseteq got' /\ \A r \in got' : r \in got \/ r = g
      BY <2>2
    <3>5. \A k \in 1 .. layer - 1 : \A d \in layers[k] \cap Subs :
            \E r \in got' : r.at = k /\ r.tp = d
      BY <1>0, <3>4 DEF Answered, EarlierLayersAnswered
    <3>6. EarlierLayersAnswered'
      BY <2>2, <3>2, <3>3, <3>5 DEF EarlierLayersAnswered
    <3>7. g.at = layer /\ g.tp = h.tp
      OBVIOUS
    <3>8. \A r \in got : r.at <= layer /\ r.tp \in layers[r.at]
      BY <1>0 DEF Answered
    <3>9. \A r \in got' : r.at <= layer /\ r.tp \in layers[r.at]
      BY <1>a, <2>1, <3>4, <3>7, <3>8
    <3>10. \A r \in got' : r.at \in Int
      BY <1>a, <3>4, <3>7
    <3>11. \A r \in got' : r.at < layer' /\ r.at <= layer' /\ r.tp \in layers'[r.at]
      BY <1>a, <2>2, <3>1, <3>9, <3>10
    <3> QED  BY <3>1, <3>6, <3>11 DEF Answered
  <2>6. CASE waiting' # {}
    <3>1. pc' = "wait" /\ layer' = layer
      BY <1>4, <2>6 DEF Receive
    <3>2. got \subseteq got' /\ \A r \in got' : r \in got \/ r = g
      BY <2>2
    <3>3. EarlierLayersAnswered'
      BY <1>0, <2>2, <3>1, <3>2 DEF Answered, EarlierLayersAnswered
    <3>4. \A r \in got : r.at <= layer /\ r.tp \in layers[r.at]
      BY <1>0 DEF Answered
    <3>5. g.at = layer /\ g.tp = h.tp
      OBVIOUS
    <3>6. \A r \in got' : r.at <= layer' /\ r.tp \in layers'[r.at]
      BY <1>a, <2>1, <2>2, <3>1, <3>2, <3>4, <3>5
    <3>7. layer' <= Len(layers')
      BY <1>a, <2>1, <2>2, <3>1
    <3>8. waiting' = {d \in layers'[layer'] \cap Subs :
                        ~ \E r \in got' : r.at = layer' /\ r.tp = d}
      BY <2>2, <2>4, <3>1
    <3> QED  BY <2>6, <3>1, <3>3, <3>6, <3>7, <3>8 DEF Answered
  <2> QED  BY <2>5, <2>6
<1>5. CASE TimeoutFires
  BY <1>0, <1>5 DEF TimeoutFires, Answered, EarlierLayersAnswered
<1>6. CASE Finish
  BY <1>0, <1>6 DEF Finish, Answered, EarlierLayersAnswered
<1>7. CASE Tick
  BY <1>0, <1>7 DEF Tick, Answered, EarlierLayersAnswered, requestVars
<1>8. CASE UNCHANGED vars
  BY <1>0, <1>8 DEF vars, Answered, EarlierLayersAnswered, requestVars
<1> QED  BY <1>1, <1>2, <1>3, <1>4, <1>5, <1>6, <1>7, <1>8 DEF Next, RequestStep

(* What every action leaves of the verdict. *)
LEMMA VerdictStep == IInv /\ [Next]_vars => Verdict'
<1> SUFFICES ASSUME IInv, [Next]_vars PROVE Verdict'
  OBVIOUS
<1>0. TypeOK /\ Verdict
  BY DEF IInv
<1> USE DEF Promise!Worst, Promise!Error, Promise!Miss, Promise!Hit, Error, Miss, Hit
<1>1. CASE SkipLayer
  BY <1>0, <1>1 DEF SkipLayer, Verdict, SlowestSoFar, reportVars
<1>2. CASE Dispatch
  BY <1>0, <1>2 DEF Dispatch, Verdict, SlowestSoFar, reportVars
<1>3. ASSUME NEW d \in Subs, SubqueryReport(d) PROVE Verdict'
  BY <1>0, <1>3 DEF SubqueryReport, Verdict, SlowestSoFar, requestVars, reportVars
<1>4. CASE Receive
  <2> DEFINE h == Head(doneDeps)
             g == [at |-> layer, tp |-> h.tp, st |-> h.st, lat |-> h.lat]
  <2>1. h.tp \in Subs /\ h.st \in {Error, Miss, Hit} /\ h.lat \in Int
    BY <1>4, ReceivedIsOpen DEF Result
  <2>2. g \in got' /\ g.tp = h.tp /\ g.st = h.st /\ g.lat = h.lat /\ got \subseteq got'
    BY <1>4 DEF Receive
  <2>3. \A r \in got' : r \in got \/ r = g
    BY <1>4 DEF Receive
  <2>4. /\ pc = "wait" /\ pc' \in {"layers", "wait"}
        /\ outcome' = outcome
        /\ reqState' = NextState(h)
        /\ NoteSlowest(h)
    BY <1>4 DEF Receive, reportVars
  <2>5. /\ slowestLat \in Nat
        /\ \A r \in got : r.lat \in Int /\ r.st \in {Error, Miss, Hit}
    BY <1>0 DEF TypeOK
  <2>6. SlowestSoFar /\ reqState = Promise!Worst(got) /\ outcome = NoOutcome
    BY <1>0, <2>4 DEF Verdict
  <2> HIDE DEF h, g
  <2>7. SlowestSoFar'
    <3>1. CASE h.lat > slowestLat
      <4>1. slowestDep' = h.tp /\ slowestLat' = h.lat
        BY <2>4, <3>1 DEF NoteSlowest
      <4> QED  BY <2>1, <2>2, <2>3, <2>5, <2>6, <3>1, <4>1 DEF SlowestSoFar
    <3>2. CASE ~ (h.lat > slowestLat)
      <4>1. slowestDep' = slowestDep /\ slowestLat' = slowestLat
        BY <2>4, <3>2 DEF NoteSlowest
      <4> QED  BY <2>1, <2>2, <2>3, <2>5, <2>6, <3>2, <4>1 DEF SlowestSoFar
    <3> QED  BY <3>1, <3>2
  <2>8. reqState' = Promise!Worst(got')
    BY <2>1, <2>2, <2>3, <2>4, <2>5, <2>6 DEF NextState
  <2> QED  BY <2>4, <2>6, <2>7, <2>8 DEF Verdict
<1>5. CASE TimeoutFires
  BY <1>0, <1>5 DEF TimeoutFires, Verdict, reportVars
<1>6. CASE Finish
  <2>1. outcome' # NoOutcome
    BY <1>0, <1>6, OutcomeAssumption, SubsAssumption DEF Finish, TypeOK
  <2> QED  BY <1>6, <2>1 DEF Finish, Verdict
<1>7. CASE Tick
  BY <1>0, <1>7 DEF Tick, Verdict, SlowestSoFar, requestVars, reportVars
<1>8. CASE UNCHANGED vars
  BY <1>0, <1>8 DEF vars, Verdict, SlowestSoFar, requestVars, reportVars
<1> QED  BY <1>1, <1>2, <1>3, <1>4, <1>5, <1>6, <1>7, <1>8 DEF Next, RequestStep

(* A receive adds one result and restarts the timer: the bound moves on.   *)
LEMMA PacedStep == IInv /\ [Next]_vars => Paced'
<1> SUFFICES ASSUME IInv, [Next]_vars PROVE Paced'
  OBVIOUS
<1>0. TypeOK /\ Paced /\ Cardinality(got) \in Nat
  BY FS_CardinalityType DEF IInv, Paced
<1> USE TimeoutAssumption
<1>1. CASE SkipLayer
  BY <1>0, <1>1 DEF SkipLayer, Paced, clockVars
<1>2. CASE Dispatch
  BY <1>0, <1>2 DEF Dispatch, Paced
<1>3. ASSUME NEW d \in Subs, SubqueryReport(d) PROVE Paced'
  BY <1>0, <1>3 DEF SubqueryReport, Paced, requestVars, clockVars
<1>4. CASE Receive
  <2> DEFINE h == Head(doneDeps)
             g == [at |-> layer, tp |-> h.tp, st |-> h.st, lat |-> h.lat]
             n == Cardinality(got)
  <2>1. g \notin got
    BY <1>4, ReceivedIsOpen
  <2>2. got' = got \cup {g} /\ timer' = 0 /\ age' = age
    BY <1>4 DEF Receive
  <2>3. IsFiniteSet(got') /\ Cardinality(got') = n + 1
    <3> HIDE DEF g, h
    <3> QED  BY <1>0, <2>1, <2>2, FS_AddElement DEF Paced
  <2>4. n \in Nat /\ age \in Nat /\ age <= Timeout * n + timer /\ timer \in 0 .. Timeout
    BY <1>0 DEF Paced, TypeOK
  <2>5. age <= Timeout * (n + 1)
    BY <2>4
  <2> QED  BY <2>2, <2>3, <2>4, <2>5 DEF Paced
<1>5. CASE TimeoutFires
  BY <1>0, <1>5 DEF TimeoutFires, Paced, clockVars
<1>6. CASE Finish
  BY <1>0, <1>6 DEF Finish, Paced, clockVars
<1>7. CASE Tick
  <2>1. Timeout * Cardinality(got) \in Nat
    BY <1>0
  <2> QED  BY <1>0, <1>7, <2>1 DEF Tick, Paced, TypeOK, requestVars
<1>8. CASE UNCHANGED vars
  BY <1>0, <1>8 DEF vars, Paced, requestVars, clockVars
<1> QED  BY <1>1, <1>2, <1>3, <1>4, <1>5, <1>6, <1>7, <1>8 DEF Next, RequestStep

(* The inductive invariant holds of every call. *)
THEOREM Invariant == Spec => []IInv
<1>1. IInv /\ [Next]_vars => IInv'
  BY TypeStep, AccountedStep, AnsweredStep, VerdictStep, PacedStep DEF IInv
<1> QED  BY <1>1, InitIInv, PTL DEF Spec, Safety

(* Every variable of a call keeps its type. *)
THEOREM TypeCorrect == Spec => []TypeOK
<1>1. IInv => TypeOK
  BY DEF IInv
<1> QED  BY <1>1, Invariant, PTL

(* waiting, the goroutines and the channel always agree, so that no result *)
(* is lost or counted twice, nor counted for a layer it is not of.         *)
THEOREM Accounted == Spec => []ResultsAccounted
<1>1. IInv => ResultsAccounted
  BY DEF IInv
<1> QED  BY <1>1, Invariant, PTL

(* Results of different dependencies among all but one subsystem leave     *)
(* room for one more.                                                      *)
LEMMA RoomForOneMore ==
  ASSUME NEW s \in Seq(Result), NEW d \in Subs,
         \A i, j \in 1 .. Len(s) : s[i].tp = s[j].tp => i = j,
         d \notin Tps(s)
  PROVE  Len(s) < DoneCap
<1> DEFINE n == Len(s)
           f == [i \in 1 .. n |-> s[i].tp]
<1>1. n \in Nat /\ \A i \in 1 .. n : s[i] \in Result
  BY LenProperties, ElementOfSeq
<1>2. \A i \in 1 .. n : s[i].tp \in Subs \ {d}
  BY <1>1 DEF Result, Tps
<1>3. f \in [1 .. n -> Subs \ {d}]
  BY <1>2
<1>4. \A i, j \in 1 .. n : f[i] = f[j] => i = j
  OBVIOUS
<1>5. f \in Injection(1 .. n, Subs \ {d})
  BY <1>3, <1>4 DEF Injection, IsInjective
<1>6. IsFiniteSet(Subs \ {d}) /\ Cardinality(Subs \ {d}) = Cardinality(Subs) - 1
  BY SubsAssumption, FS_RemoveElement
<1>7. Cardinality(1 .. n) <= Cardinality(Subs \ {d})
  BY <1>5, <1>6, FS_Injection
<1>8. Cardinality(1 .. n) = n
  <2>1. PICK m \in Nat : m = n
    BY <1>1
  <2>2. Cardinality(1 .. m) = m
    BY FS_Interval
  <2> QED  BY <2>1, <2>2
<1>9. Cardinality(Subs) \in Nat
  BY SubsAssumption, FS_CardinalityType
<1> QED  BY <1>1, <1>6, <1>7, <1>8, <1>9, DoneCapAssumption

(* With at most as many subsystems as doneDeps has places, no subquery     *)
(* ever blocks on its send, a late one after a timeout included.           *)
THEOREM NoBlockedSend == Spec => []SendNeverBlocks
<1>1. IInv => SendNeverBlocks
  <2> SUFFICES ASSUME IInv, NEW d \in running PROVE Len(doneDeps) < DoneCap
    BY DEF SendNeverBlocks
  <2>1. doneDeps \in Seq(Result) /\ d \in Subs
    BY DEF IInv, TypeOK, Result
  <2>2. /\ d \notin Tps(doneDeps)
        /\ \A i, j \in 1 .. Len(doneDeps) : doneDeps[i].tp = doneDeps[j].tp => i = j
    BY DEF IInv, ResultsAccounted
  <2> QED  BY <2>1, <2>2, RoomForOneMore
<1> QED  BY <1>1, Invariant, PTL

(* A request is given up or over after one timeout per result, plus one.   *)
THEOREM BoundedAge == Spec => []AgeBounded
<1>1. IInv => AgeBounded
  <2> SUFFICES ASSUME IInv PROVE AgeBounded
    OBVIOUS
  <2>1. PICK n \in Nat : n = Cardinality(got)
    BY FS_CardinalityType DEF IInv, Paced
  <2>2. age <= Timeout * n + timer /\ timer <= Timeout /\ timer \in Nat /\ age \in Nat
    BY <2>1, TimeoutAssumption DEF IInv, Paced, TypeOK
  <2>3. Timeout * (n + 1) = Timeout * n + Timeout
    BY <2>1, TimeoutAssumption
  <2> QED  BY <2>1, <2>2, <2>3, TimeoutAssumption DEF AgeBounded
<1> QED  BY <1>1, Invariant, PTL

(* No layer is started before all of the earlier ones have answered. *)
THEOREM LayersInOrder == Spec => LayerOrder
<1>1. IInv => EarlierLayersAnswered
  BY DEF IInv, Answered
<1>2. IInv /\ [Next]_vars => [running' \subseteq running \/ EarlierLayersAnswered]_vars
  BY <1>1
<1> QED  BY <1>2, Invariant, PTL DEF Spec, Safety, LayerOrder
-----------------------------------------------------------------------------
(* The dependencies that the promise lets be the next to answer, or to be  *)
(* blamed, are those that the request waits for.                           *)
LEMMA WaitingIsCurrent ==
  ASSUME IInv, pc \in {"wait", "report"}, NEW d \in waiting
  PROVE  <<layer, d>> \in Promise!Current
<1>1. layer \in 1 .. Len(layers) /\ layers \in Seq(SUBSET Names)
  BY PlansAssumption DEF IInv, TypeOK, Answered
<1>2. d \in layers[layer] \cap Subs /\ ~ \E r \in got : r.at = layer /\ r.tp = d
  BY DEF IInv, Answered
<1>3. <<layer, d>> \in Promise!Open
  BY <1>1, <1>2 DEF Promise!Open, Promise!Asked
<1>4. ASSUME NEW p \in Promise!Open PROVE layer <= p[1]
  <2>1. PICK k \in DOMAIN layers : \E e \in layers[k] \cap Subs : p = <<k, e>>
    BY DEF Promise!Open, Promise!Asked
  <2>2. PICK e \in layers[k] \cap Subs : p = <<k, e>>
    BY <2>1
  <2>3. ~ \E r \in got : r.at = k /\ r.tp = e
    BY <2>2 DEF Promise!Open
  <2>4. ~ k \in 1 .. layer - 1
    BY <2>2, <2>3 DEF IInv, Answered, EarlierLayersAnswered
  <2>5. k \in Nat /\ k >= 1
    BY <1>1, <2>1
  <2> QED  BY <1>1, <2>2, <2>4, <2>5
<1> QED  BY <1>3, <1>4 DEF Promise!Current

(* After its last layer a request has nothing open. *)
LEMMA NothingOpen ==
  ASSUME IInv, pc = "layers", layer > Len(layers)
  PROVE  Promise!Open = {}
<1>1. layers \in Seq(SUBSET Names) /\ layer \in 1 .. Len(layers) + 1
  BY PlansAssumption DEF IInv, TypeOK
<1>2. ASSUME NEW p \in Promise!Open PROVE FALSE
  <2>1. PICK k \in DOMAIN layers : \E e \in layers[k] \cap Subs : p = <<k, e>>
    BY DEF Promise!Open, Promise!Asked
  <2>2. PICK e \in layers[k] \cap Subs : p = <<k, e>>
    BY <2>1
  <2>3. k \in 1 .. layer - 1
    BY <1>1, <2>1
  <2>4. \E r \in got : r.at = k /\ r.tp = e
    BY <2>2, <2>3 DEF IInv, Answered, EarlierLayersAnswered
  <2> QED  BY <2>2, <2>4 DEF Promise!Open
<1> QED  BY <1>2

(* What slowestDep holds may be blamed. *)
LEMMA SlowestIsSlowest ==
  ASSUME IInv, SlowestSoFar
  PROVE  slowestDep \in Promise!Slowest(got)
<1>1. slowestLat \in Nat /\ \A r \in got : r.lat \in Int
  BY DEF IInv, TypeOK
<1>2. CASE slowestLat = 0
  BY <1>1, <1>2 DEF SlowestSoFar, Promise!Slowest
<1>3. CASE slowestLat # 0
  <2>1. PICK r \in got : r.tp = slowestDep /\ r.lat = slowestLat
    BY <1>3 DEF SlowestSoFar
  <2>2. ~ \A q \in got : q.lat <= 0
    BY <1>1, <1>3, <2>1
  <2>3. r \in {b \in got : \A c \in got : c.lat <= b.lat}
    BY <2>1 DEF SlowestSoFar
  <2> QED  BY <2>1, <2>2, <2>3 DEF Promise!Slowest
<1> QED  BY <1>2, <1>3

(* Every step of a call is a step of the promise, or leaves it unchanged. *)
LEMMA StepKeepsPromise == IInv /\ [Next]_vars => [Promise!Next]_Promise!vars
<1> SUFFICES ASSUME IInv, [Next]_vars PROVE [Promise!Next]_Promise!vars
  OBVIOUS
<1> USE DEF Promise!vars
<1>1. CASE SkipLayer
  BY <1>1 DEF SkipLayer, reportVars
<1>2. CASE Dispatch
  BY <1>2 DEF Dispatch, reportVars
<1>3. ASSUME NEW d \in Subs, SubqueryReport(d) PROVE UNCHANGED Promise!vars
  BY <1>3 DEF SubqueryReport, requestVars, reportVars
<1>4. CASE Receive
  <2> DEFINE h == Head(doneDeps)
             g == [at |-> layer, tp |-> h.tp, st |-> h.st, lat |-> h.lat]
  <2>1. h \in Result /\ h.tp \in waiting /\ g \notin got
    BY <1>4, ReceivedIsOpen
  <2>2. <<layer, h.tp>> \in Promise!Current
    BY <1>4, <2>1, WaitingIsCurrent DEF Receive
  <2>3. got' = got \cup {g} /\ outcome' = outcome /\ layers' = layers
    BY <1>4 DEF Receive, reportVars
  <2>4. outcome = NoOutcome
    BY <1>4 DEF Receive, IInv, Verdict
  <2>5. /\ <<g.at, g.tp>> \in Promise!Current
        /\ g.st \in {Promise!Hit, Promise!Miss, Promise!Error}
        /\ g.lat \in Int
    BY <2>1, <2>2 DEF Result, Hit, Miss, Error, Promise!Hit, Promise!Miss, Promise!Error
  <2> HIDE DEF g, h
  <2>6. Promise!Answer
    BY <2>1, <2>3, <2>4, <2>5 DEF Promise!Answer
  <2> QED  BY <2>6 DEF Promise!Next
<1>5. CASE TimeoutFires
  BY <1>5 DEF TimeoutFires, reportVars
<1>6. CASE Finish
  <2>1. outcome = NoOutcome /\ layers' = layers /\ got' = got
    BY <1>6 DEF Finish, IInv, Verdict
  <2>2. outcome' = [st |-> reqState, cp |-> slowestDep]
    BY <1>6 DEF Finish
  <2>3. CASE pc = "report"
    <3>1. reqState = Error /\ slowestDep \in waiting
      BY <2>3 DEF IInv, Verdict
    <3>2. <<layer, slowestDep>> \in Promise!Current
      BY <2>3, <3>1, WaitingIsCurrent
    <3>3. Promise!GiveUp
      BY <2>1, <2>2, <3>1, <3>2 DEF Promise!GiveUp, Promise!Error, Error
    <3> QED  BY <3>3 DEF Promise!Next
  <2>4. CASE pc = "layers" /\ layer > Len(layers)
    <3>1. reqState = Promise!Worst(got) /\ SlowestSoFar
      BY <2>4 DEF IInv, Verdict
    <3>2. Promise!Complete
      BY <2>1, <2>2, <2>4, <3>1, NothingOpen, SlowestIsSlowest DEF Promise!Complete
    <3> QED  BY <3>2 DEF Promise!Next
  <2> QED  BY <1>6, <2>3, <2>4 DEF Finish
<1>7. CASE Tick
  BY <1>7 DEF Tick, requestVars, reportVars
<1>8. CASE UNCHANGED vars
  BY <1>8 DEF vars, requestVars, reportVars
<1> QED  BY <1>1, <1>2, <1>3, <1>4, <1>5, <1>6, <1>7, <1>8 DEF Next, RequestStep

(* A call of ParseRequest implements RequestPromise. *)
THEOREM Refinement == Spec => Implements
<1>1. Init => Promise!Init
  BY DEF Init, Promise!Init
<1> QED  BY <1>1, StepKeepsPromise, Invariant, PTL
            DEF Spec, Safety, Implements, Promise!Safety
-----------------------------------------------------------------------------

(* The balancer waits for InitHttp; the generator starts with a full pool. *)
InOrder ==
  /\ gen = "init" => balancer = "take" /\ line = 1
  /\ gen # "init" => opened = Clients

(* Goroutines are those of the lines read, clients go to requests only,   *)
(* and an empty line ends unanswered.                                      *)
Started ==
  /\ \A r \in Lines : request[r] = "unread" <=> r >= line
  /\ \A r \in Lines : request[r] \in {"posting", "answered"} => trace[r] = "request"

LoadInv == LoadTypeOK /\ InOrder /\ Started /\ ClientsAccounted /\ BacklogCounted
-----------------------------------------------------------------------------
(* Lines is finite, and so are the sets of lines that are counted. *)
LEMMA LinesFinite ==
  ASSUME LoadTypeOK
  PROVE  /\ Len(trace) \in Nat /\ IsFiniteSet(Lines) /\ trace \in [Lines -> {"request", "empty"}]
         /\ \A S \in SUBSET Lines : IsFiniteSet(S) /\ Cardinality(S) \in Nat
<1>1. trace \in Seq({"request", "empty"})
  BY TracesAssumption DEF LoadTypeOK
<1>2. Len(trace) \in Nat /\ trace \in [Lines -> {"request", "empty"}]
  BY <1>1 DEF Lines
<1>3. IsFiniteSet(Lines)
  BY <1>2, FS_Interval DEF Lines
<1> QED  BY <1>2, <1>3, FS_Subset, FS_CardinalityType

(* What a line does to a set of lines it enters or leaves. *)
LEMMA Counting ==
  ASSUME LoadTypeOK, NEW S \in SUBSET Lines, NEW r \in Lines
  PROVE  /\ r \notin S => Cardinality(S \cup {r}) = Cardinality(S) + 1
         /\ r \in S => Cardinality(S \ {r}) = Cardinality(S) - 1
<1>1. IsFiniteSet(S)
  BY LinesFinite
<1> QED  BY <1>1, FS_AddElement, FS_RemoveElement

LEMMA LoadInitInv == LoadInit => LoadInv
<1> SUFFICES ASSUME LoadInit PROVE LoadInv
  OBVIOUS
<1> USE DEF LoadInit
<1>1. trace \in Seq({"request", "empty"}) /\ Len(trace) \in Nat
  BY TracesAssumption
<1>2. Bound \in Nat
  BY ClientsAssumption DEF Bound
<1>3. LoadTypeOK
  BY <1>1, <1>2, ClientsAssumption DEF LoadTypeOK, Lines
<1>4. InOrder /\ Started
  BY <1>1 DEF InOrder, Started, Lines
<1>5. Using = {} /\ Unsent = {} /\ Skipped = {}
  BY DEF Using, Unsent, Skipped
<1> QED  BY <1>3, <1>4, <1>5, FS_EmptySet DEF LoadInv, ClientsAccounted, BacklogCounted

(* The pool has room for every client that is on its way into it. *)
LEMMA RoomInPool == LoadInv => PutNeverBlocks
<1> SUFFICES ASSUME LoadInv, Putting PROVE pool < Clients
  BY DEF PutNeverBlocks
<1> USE DEF LoadInv, LoadTypeOK
<1>1. Using \in SUBSET Lines /\ Cardinality(Using) \in Nat
  BY LinesFinite DEF Using
<1>2. CASE \E r \in Lines : request[r] = "answered"
  <2>1. Using # {}
    BY <1>2 DEF Using
  <2>2. Cardinality(Using) # 0
    BY <1>1, <2>1, LinesFinite, FS_EmptySet
  <2> QED  BY <1>1, <2>2, ClientsAssumption DEF ClientsAccounted
<1>3. CASE balancer = "put" \/ opened < Clients
  BY <1>1, <1>3, ClientsAssumption DEF ClientsAccounted
<1> QED  BY <1>2, <1>3 DEF Putting
-----------------------------------------------------------------------------
(* What a goroutine does next is the only thing that changes of it. *)
LEMMA MoveOn ==
  ASSUME LoadTypeOK, NEW r \in Lines,
         NEW x \in {"unread", "started", "posting", "answered", "done"},
         UNCHANGED trace, request' = [request EXCEPT ![r] = x]
  PROVE  /\ Lines' = Lines
         /\ request' \in [Lines -> {"unread", "started", "posting", "answered", "done"}]
         /\ request'[r] = x
         /\ \A q \in Lines \ {r} : request'[q] = request[q]
<1>1. request \in [Lines -> {"unread", "started", "posting", "answered", "done"}]
  BY DEF LoadTypeOK
<1> QED  BY <1>1 DEF Lines

LEMMA LoadTypeStep == LoadInv /\ [LoadNext]_loadVars => LoadTypeOK'
<1> SUFFICES ASSUME LoadInv, [LoadNext]_loadVars PROVE LoadTypeOK'
  OBVIOUS
<1>0. LoadTypeOK /\ Len(trace) \in Nat /\ PutNeverBlocks /\ Bound \in Nat
  BY LinesFinite, RoomInPool, ClientsAssumption DEF LoadInv, Bound
<1>1. ASSUME NEW s \in Servers, OpenClient(s) PROVE LoadTypeOK'
  <2>1. pool < Clients
    BY <1>0, <1>1 DEF OpenClient, PutNeverBlocks, Putting
  <2>2. coupon' \in [Servers -> 0 .. Bound]
    BY <1>0, <1>1 DEF OpenClient, LoadTypeOK
  <2>3. tries' \in 0 .. MaxTries - 1 /\ pool' \in 0 .. Clients /\ opened' \in 0 .. Clients
    BY <1>0, <1>1, <2>1, ClientsAssumption DEF OpenClient, LoadTypeOK
  <2>4. UNCHANGED <<trace, gen, line, request, countVars, balancer, lost>>
    BY <1>1 DEF OpenClient
  <2> QED  BY <1>0, <2>2, <2>3, <2>4 DEF LoadTypeOK, Lines, countVars
<1>2. CASE StartLoad \/ EndOfTrace \/ FinishLoad
  <2>1. gen' \in {"load", "wait", "done"}
    BY <1>2 DEF StartLoad, EndOfTrace, FinishLoad
  <2>2. UNCHANGED <<trace, line, pool, initVars, request, countVars, balancer, lost>>
    BY <1>2 DEF StartLoad, EndOfTrace, FinishLoad
  <2> QED  BY <1>0, <2>1, <2>2 DEF LoadTypeOK, Lines, initVars, countVars
<1>3. CASE Schedule
  <2>1. /\ line \in Lines
        /\ UNCHANGED trace
        /\ request' = [request EXCEPT ![line] = "started"]
    BY <1>3 DEF Schedule
  <2>2. Lines' = Lines
        /\ request' \in [Lines -> {"unread", "started", "posting", "answered", "done"}]
    BY <1>0, <2>1, MoveOn
  <2>3. line' \in 1 .. Len(trace) + 1 /\ schedCount' \in Nat
    BY <1>0, <1>3, <2>1 DEF Schedule, LoadTypeOK, Lines
  <2>4. UNCHANGED <<trace, gen, pool, initVars, sentCount, balancer, lost>>
    BY <1>3 DEF Schedule
  <2> QED  BY <1>0, <2>2, <2>3, <2>4 DEF LoadTypeOK, initVars
<1>4. ASSUME NEW r \in Lines, SkipEmpty(r) \/ TakeClient(r) \/ Post(r) \/ ReturnClient(r)
      PROVE  LoadTypeOK'
  <2>1. PICK x \in {"posting", "answered", "done"} : request' = [request EXCEPT ![r] = x]
    BY <1>4 DEF SkipEmpty, TakeClient, Post, PostSucceeds, PostFails, ReturnClient
  <2>2. UNCHANGED <<trace, gen, line, initVars, schedCount, balancer>>
    BY <1>4 DEF SkipEmpty, TakeClient, Post, PostSucceeds, PostFails, ReturnClient, countVars
  <2>3. Lines' = Lines
        /\ request' \in [Lines -> {"unread", "started", "posting", "answered", "done"}]
    BY <1>0, <2>1, <2>2, MoveOn
  <2>4. pool \in 0 .. Clients /\ sentCount \in Nat /\ lost \in Nat
    BY <1>0 DEF LoadTypeOK
  <2>5. /\ pool' = pool \/ (pool > 0 /\ pool' = pool - 1) \/ (pool < Clients /\ pool' = pool + 1)
        /\ sentCount' \in {sentCount, sentCount + 1}
        /\ lost' \in {lost, lost + 1}
    BY <1>4 DEF SkipEmpty, TakeClient, Post, PostSucceeds, PostFails, ReturnClient, countVars
  <2>6. pool' \in 0 .. Clients /\ sentCount' \in Nat /\ lost' \in Nat
    BY <2>4, <2>5, ClientsAssumption
  <2> QED  BY <1>0, <2>2, <2>3, <2>6 DEF LoadTypeOK, initVars
<1>5. CASE Balance
  <2>1. UNCHANGED <<trace, gen, line, initVars, request, countVars, lost>>
    BY <1>5 DEF Balance, BalancerTakes, BalancerDials, BalancerPuts
  <2>2. balancer' \in {"take", "dial", "put"}
    BY <1>5 DEF Balance, BalancerTakes, BalancerDials, BalancerPuts
  <2>3. pool' = pool \/ (pool > 0 /\ pool' = pool - 1) \/ (pool < Clients /\ pool' = pool + 1)
    BY <1>5 DEF Balance, BalancerTakes, BalancerDials, BalancerPuts
  <2>4. pool' \in 0 .. Clients
    BY <1>0, <2>3, ClientsAssumption DEF LoadTypeOK
  <2> QED  BY <1>0, <2>1, <2>2, <2>4 DEF LoadTypeOK, Lines, initVars, countVars
<1>6. CASE UNCHANGED loadVars
  BY <1>0, <1>6 DEF loadVars, LoadTypeOK, Lines, initVars, countVars
<1> QED  BY <1>1, <1>2, <1>3, <1>4, <1>5, <1>6 DEF LoadNext, Main

LEMMA OrderStep == LoadInv /\ [LoadNext]_loadVars => InOrder' /\ Started'
<1> SUFFICES ASSUME LoadInv, [LoadNext]_loadVars PROVE InOrder' /\ Started'
  OBVIOUS
<1>0. LoadTypeOK /\ InOrder /\ Started /\ Len(trace) \in Nat
  BY LinesFinite DEF LoadInv
<1>1. ASSUME NEW s \in Servers, OpenClient(s) PROVE InOrder' /\ Started'
  <2>1. gen = "init" /\ UNCHANGED <<trace, gen, line, request, balancer>>
    BY <1>1 DEF OpenClient
  <2> QED  BY <1>0, <2>1 DEF InOrder, Started, Lines
<1>2. CASE StartLoad \/ EndOfTrace \/ FinishLoad
  <2>1. opened' = Clients /\ gen' # "init"
    BY <1>0, <1>2 DEF StartLoad, EndOfTrace, FinishLoad, InOrder, initVars
  <2>2. UNCHANGED <<trace, line, request>>
    BY <1>2 DEF StartLoad, EndOfTrace, FinishLoad
  <2> QED  BY <1>0, <2>1, <2>2 DEF InOrder, Started, Lines
<1>3. CASE Schedule
  <2>1. /\ line \in Lines
        /\ line' = line + 1
        /\ UNCHANGED <<trace, gen, opened>>
        /\ gen = "load"
        /\ request' = [request EXCEPT ![line] = "started"]
    BY <1>3 DEF Schedule, initVars
  <2>2. Lines' = Lines /\ request'[line] = "started"
        /\ \A q \in Lines \ {line} : request'[q] = request[q]
    BY <1>0, <2>1, MoveOn
  <2>3. \A q \in Lines : request'[q] = "unread" <=> q >= line + 1
    BY <1>0, <2>1, <2>2 DEF Started, Lines
  <2>4. \A q \in Lines : request'[q] \in {"posting", "answered"} => trace[q] = "request"
    BY <1>0, <2>2 DEF Started
  <2> QED  BY <1>0, <2>1, <2>2, <2>3, <2>4 DEF InOrder, Started
<1>4. ASSUME NEW r \in Lines, SkipEmpty(r) \/ TakeClient(r) \/ Post(r) \/ ReturnClient(r)
      PROVE  InOrder' /\ Started'
  <2>1. PICK x \in {"posting", "answered", "done"} : request' = [request EXCEPT ![r] = x]
    BY <1>4 DEF SkipEmpty, TakeClient, Post, PostSucceeds, PostFails, ReturnClient
  <2>2. UNCHANGED <<trace, gen, line, opened, balancer>>
    BY <1>4 DEF SkipEmpty, TakeClient, Post, PostSucceeds, PostFails, ReturnClient, initVars
  <2>3. Lines' = Lines /\ request'[r] = x
        /\ \A q \in Lines \ {r} : request'[q] = request[q]
    BY <1>0, <2>1, <2>2, MoveOn
  <2>4. request[r] # "unread"
    BY <1>4 DEF SkipEmpty, TakeClient, Post, PostSucceeds, PostFails, ReturnClient
  <2>5. request'[r] \in {"posting", "answered"} => trace[r] = "request"
    <3>1. CASE SkipEmpty(r) \/ ReturnClient(r)
      BY <1>0, <2>3, <3>1 DEF SkipEmpty, ReturnClient, LoadTypeOK
    <3>2. CASE TakeClient(r)
      BY <3>2 DEF TakeClient
    <3>3. CASE Post(r)
      BY <1>0, <3>3 DEF Post, PostSucceeds, PostFails, Started
    <3> QED  BY <1>4, <3>1, <3>2, <3>3
  <2>6. \A q \in Lines : request'[q] = "unread" <=> q >= line
    BY <1>0, <2>3, <2>4 DEF Started
  <2>7. \A q \in Lines : request'[q] \in {"posting", "answered"} => trace[q] = "request"
    BY <1>0, <2>3, <2>5 DEF Started
  <2> QED  BY <1>0, <2>2, <2>3, <2>6, <2>7 DEF InOrder, Started
<1>5. CASE Balance
  <2>1. gen # "init" /\ UNCHANGED <<trace, gen, line, opened, request>>
    BY <1>5 DEF Balance, BalancerTakes, BalancerDials, BalancerPuts, initVars
  <2> QED  BY <1>0, <2>1 DEF InOrder, Started, Lines
<1>6. CASE UNCHANGED loadVars
  BY <1>0, <1>6 DEF loadVars, InOrder, Started, Lines, initVars
<1> QED  BY <1>1, <1>2, <1>3, <1>4, <1>5, <1>6 DEF LoadNext, Main
-----------------------------------------------------------------------------
(* Where no goroutine moves, the same lines are counted. *)
LEMMA SameLines ==
  ASSUME UNCHANGED <<trace, request>>
  PROVE  Using' = Using /\ Unsent' = Unsent /\ Skipped' = Skipped
BY DEF Using, Unsent, Skipped, Lines

(* The sets that are counted gain or lose the line whose goroutine moves.  *)
LEMMA CountedSets ==
  ASSUME LoadTypeOK, NEW r \in Lines,
         NEW x \in {"unread", "started", "posting", "answered", "done"},
         UNCHANGED trace, request' = [request EXCEPT ![r] = x]
  PROVE  /\ Using' = IF x \in {"posting", "answered"} THEN Using \cup {r} ELSE Using \ {r}
         /\ Unsent' = IF trace[r] = "request" /\ x \in {"started", "posting"}
                        THEN Unsent \cup {r} ELSE Unsent \ {r}
         /\ Skipped' = IF trace[r] = "empty" /\ x # "unread"
                         THEN Skipped \cup {r} ELSE Skipped \ {r}
<1>1. /\ Lines' = Lines /\ request'[r] = x /\ trace' = trace
      /\ \A q \in Lines \ {r} : request'[q] = request[q]
  BY MoveOn
<1>2. Using' = {q \in Lines : request'[q] \in {"posting", "answered"}}
  BY <1>1 DEF Using
<1>3. Unsent' = {q \in Lines : trace[q] = "request" /\ request'[q] \in {"started", "posting"}}
  BY <1>1 DEF Unsent
<1>4. Skipped' = {q \in Lines : trace[q] = "empty" /\ request'[q] # "unread"}
  BY <1>1 DEF Skipped
<1>5. Using' = IF x \in {"posting", "answered"} THEN Using \cup {r} ELSE Using \ {r}
  BY <1>1, <1>2 DEF Using
<1>6. Unsent' = IF trace[r] = "request" /\ x \in {"started", "posting"}
                  THEN Unsent \cup {r} ELSE Unsent \ {r}
  BY <1>1, <1>3 DEF Unsent
<1>7. Skipped' = IF trace[r] = "empty" /\ x # "unread"
                   THEN Skipped \cup {r} ELSE Skipped \ {r}
  BY <1>1, <1>4 DEF Skipped
<1> QED  BY <1>5, <1>6, <1>7

(* To add what is there, or to take away what is not, changes nothing. *)
LEMMA Unmoved ==
  ASSUME NEW S, NEW r
  PROVE  /\ r \in S => S \cup {r} = S
         /\ r \notin S => S \ {r} = S
OBVIOUS

LEMMA ClientsStep == LoadInv /\ [LoadNext]_loadVars => ClientsAccounted'
<1> SUFFICES ASSUME LoadInv, [LoadNext]_loadVars PROVE ClientsAccounted'
  OBVIOUS
<1>0. LoadTypeOK /\ InOrder /\ ClientsAccounted /\ Using \in SUBSET Lines
      /\ Cardinality(Using) \in Nat
  BY LinesFinite DEF LoadInv, Using
<1>t. opened \in Nat /\ pool \in Nat /\ lost \in Nat /\ balancer \in {"take", "dial", "put"}
  BY <1>0, ClientsAssumption DEF LoadTypeOK
<1>1. ASSUME NEW s \in Servers, OpenClient(s) PROVE ClientsAccounted'
  <2>1. Using' = Using /\ UNCHANGED <<balancer, lost>>
    BY <1>1, SameLines DEF OpenClient
  <2>2. (opened' = opened + 1 /\ pool' = pool + 1) \/ UNCHANGED <<opened, pool>>
    BY <1>1 DEF OpenClient
  <2> QED  BY <1>0, <1>t, <2>1, <2>2 DEF ClientsAccounted
<1>2. CASE StartLoad \/ EndOfTrace \/ FinishLoad
  <2>1. UNCHANGED <<trace, request, opened, pool, balancer, lost>>
    BY <1>2 DEF StartLoad, EndOfTrace, FinishLoad, initVars
  <2> QED  BY <1>0, <2>1, SameLines DEF ClientsAccounted
<1>3. CASE Schedule
  <2>1. line \in Lines /\ UNCHANGED <<trace, opened, pool, balancer, lost>>
        /\ request' = [request EXCEPT ![line] = "started"]
    BY <1>3 DEF Schedule, initVars
  <2>2. request[line] = "unread"
    BY <1>0, <2>1 DEF LoadInv, Started, LoadTypeOK, Lines
  <2>3. Using' = Using
    BY <1>0, <2>1, <2>2, CountedSets DEF Using
  <2> QED  BY <1>0, <2>1, <2>3 DEF ClientsAccounted
<1>4. ASSUME NEW r \in Lines, SkipEmpty(r) \/ PostSucceeds(r) PROVE ClientsAccounted'
  <2>1. PICK x \in {"answered", "done"} : /\ request' = [request EXCEPT ![r] = x]
                                          /\ r \in Using <=> x = "answered"
    BY <1>4 DEF SkipEmpty, PostSucceeds, Using
  <2>2. UNCHANGED <<trace, opened, pool, balancer, lost>>
    BY <1>4 DEF SkipEmpty, PostSucceeds, initVars
  <2>3. Using' = IF x = "answered" THEN Using \cup {r} ELSE Using \ {r}
    BY <1>0, <2>1, <2>2, CountedSets
  <2>4. Using' = Using
    BY <2>1, <2>3, Unmoved
  <2> QED  BY <1>0, <2>2, <2>4 DEF ClientsAccounted
<1>5. ASSUME NEW r \in Lines, TakeClient(r) PROVE ClientsAccounted'
  <2>1. /\ request' = [request EXCEPT ![r] = "posting"]
        /\ r \notin Using
        /\ UNCHANGED <<trace, opened, balancer, lost>>
        /\ pool' = pool - 1
    BY <1>5 DEF TakeClient, Using, initVars
  <2>2. Using' = Using \cup {r}
    BY <1>0, <2>1, CountedSets DEF Using
  <2>3. Cardinality(Using') = Cardinality(Using) + 1
    BY <1>0, <2>1, <2>2, Counting
  <2> QED  BY <1>0, <1>t, <2>1, <2>3 DEF ClientsAccounted
<1>6. ASSUME NEW r \in Lines, PostFails(r) \/ ReturnClient(r) PROVE ClientsAccounted'
  <2>1. /\ request' = [request EXCEPT ![r] = "done"]
        /\ r \in Using
        /\ UNCHANGED <<trace, opened, balancer>>
        /\ \/ pool' = pool + 1 /\ lost' = lost
           \/ pool' = pool /\ lost' = lost + 1
    BY <1>6 DEF PostFails, ReturnClient, Using, initVars
  <2>2. Using' = Using \ {r}
    BY <1>0, <2>1, CountedSets DEF Using
  <2>3. Cardinality(Using') = Cardinality(Using) - 1
    BY <1>0, <2>1, <2>2, Counting
  <2> QED  BY <1>0, <1>t, <2>1, <2>3 DEF ClientsAccounted
<1>7. CASE Balance
  <2>1. UNCHANGED <<trace, opened, request, lost>>
    BY <1>7 DEF Balance, BalancerTakes, BalancerDials, BalancerPuts, initVars
  <2>2. \/ balancer = "take" /\ balancer' = "dial" /\ pool' = pool - 1
        \/ balancer = "dial" /\ balancer' = "put" /\ pool' = pool
        \/ balancer = "put" /\ balancer' = "take" /\ pool' = pool + 1
    BY <1>7 DEF Balance, BalancerTakes, BalancerDials, BalancerPuts
  <2>3. Using' = Using
    BY <2>1, SameLines
  <2> QED  BY <1>0, <1>t, <2>1, <2>2, <2>3 DEF ClientsAccounted
<1>8. CASE UNCHANGED loadVars
  BY <1>0, <1>8, SameLines DEF loadVars, initVars, ClientsAccounted
<1> QED  BY <1>1, <1>2, <1>3, <1>4, <1>5, <1>6, <1>7, <1>8 DEF LoadNext, Main, Post

LEMMA BacklogStep == LoadInv /\ [LoadNext]_loadVars => BacklogCounted'
<1> SUFFICES ASSUME LoadInv, [LoadNext]_loadVars PROVE BacklogCounted'
  OBVIOUS
<1>0. /\ LoadTypeOK /\ Started /\ BacklogCounted /\ trace \in [Lines -> {"request", "empty"}]
      /\ Unsent \in SUBSET Lines /\ Skipped \in SUBSET Lines
      /\ Cardinality(Unsent) \in Nat /\ Cardinality(Skipped) \in Nat
  BY LinesFinite DEF LoadInv, Unsent, Skipped
<1>t. schedCount \in Nat /\ sentCount \in Nat
  BY <1>0 DEF LoadTypeOK
<1>1. CASE \/ \E s \in Servers : OpenClient(s)
           \/ StartLoad \/ EndOfTrace \/ FinishLoad \/ Balance
  <2>1. UNCHANGED <<trace, request, schedCount, sentCount>>
    BY <1>1 DEF OpenClient, StartLoad, EndOfTrace, FinishLoad, Balance,
                BalancerTakes, BalancerDials, BalancerPuts, countVars
  <2> QED  BY <1>0, <2>1, SameLines DEF BacklogCounted
<1>2. CASE Schedule
  <2>1. /\ line \in Lines /\ UNCHANGED <<trace, sentCount>>
        /\ schedCount' = schedCount + 1
        /\ request' = [request EXCEPT ![line] = "started"]
    BY <1>2 DEF Schedule
  <2>2. request[line] = "unread"
    BY <1>0, <2>1 DEF Started, LoadTypeOK, Lines
  <2>3. CASE trace[line] = "request"
    <3>1. line \notin Unsent
      BY <2>2 DEF Unsent
    <3>2. Unsent' = Unsent \cup {line} /\ Skipped' = Skipped
      BY <1>0, <2>1, <2>3, CountedSets DEF Unsent, Skipped
    <3>3. Cardinality(Unsent') = Cardinality(Unsent) + 1
      BY <1>0, <2>1, <3>1, <3>2, Counting
    <3> QED  BY <1>0, <1>t, <2>1, <3>2, <3>3 DEF BacklogCounted
  <2>4. CASE trace[line] = "empty"
    <3>1. line \notin Skipped
      BY <2>2 DEF Skipped
    <3>2. Skipped' = Skipped \cup {line} /\ Unsent' = Unsent
      BY <1>0, <2>1, <2>4, CountedSets DEF Unsent, Skipped
    <3>3. Cardinality(Skipped') = Cardinality(Skipped) + 1
      BY <1>0, <2>1, <3>1, <3>2, Counting
    <3> QED  BY <1>0, <1>t, <2>1, <3>2, <3>3 DEF BacklogCounted
  <2> QED  BY <1>0, <2>1, <2>3, <2>4
<1>3. ASSUME NEW r \in Lines, SkipEmpty(r) \/ TakeClient(r) \/ ReturnClient(r)
      PROVE  BacklogCounted'
  <2>1. UNCHANGED <<trace, schedCount, sentCount>>
    BY <1>3 DEF SkipEmpty, TakeClient, ReturnClient, countVars
  <2>2. CASE SkipEmpty(r)
    <3>1. request' = [request EXCEPT ![r] = "done"] /\ trace[r] = "empty"
      BY <2>2 DEF SkipEmpty
    <3>2. r \notin Unsent /\ r \in Skipped
      BY <2>2, <3>1 DEF SkipEmpty, Unsent, Skipped
    <3>3. Unsent' = Unsent \ {r} /\ Skipped' = Skipped \cup {r}
      BY <1>0, <2>1, <3>1, CountedSets
    <3> QED  BY <1>0, <2>1, <3>2, <3>3, Unmoved DEF BacklogCounted
  <2>3. CASE TakeClient(r)
    <3>1. request' = [request EXCEPT ![r] = "posting"] /\ trace[r] = "request"
      BY <2>3 DEF TakeClient
    <3>2. r \in Unsent /\ r \notin Skipped
      BY <2>3, <3>1 DEF TakeClient, Unsent, Skipped
    <3>3. Unsent' = Unsent \cup {r} /\ Skipped' = Skipped \ {r}
      BY <1>0, <2>1, <3>1, CountedSets
    <3> QED  BY <1>0, <2>1, <3>2, <3>3, Unmoved DEF BacklogCounted
  <2>4. CASE ReturnClient(r)
    <3>1. request' = [request EXCEPT ![r] = "done"] /\ trace[r] = "request"
      BY <1>0, <2>4 DEF ReturnClient, Started
    <3>2. r \notin Unsent /\ r \notin Skipped
      BY <2>4, <3>1 DEF ReturnClient, Unsent, Skipped
    <3>3. Unsent' = Unsent \ {r} /\ Skipped' = Skipped \ {r}
      BY <1>0, <2>1, <3>1, CountedSets
    <3> QED  BY <1>0, <2>1, <3>2, <3>3, Unmoved DEF BacklogCounted
  <2> QED  BY <1>3, <2>2, <2>3, <2>4
<1>4. ASSUME NEW r \in Lines, Post(r) PROVE BacklogCounted'
  <2>1. PICK x \in {"answered", "done"} : request' = [request EXCEPT ![r] = x]
    BY <1>4 DEF Post, PostSucceeds, PostFails
  <2>2. /\ request[r] = "posting" /\ UNCHANGED <<trace, schedCount>>
        /\ sentCount' = sentCount + 1
    BY <1>4 DEF Post, PostSucceeds, PostFails
  <2>3. r \in Unsent /\ Unsent' = Unsent \ {r} /\ Skipped' = Skipped
    BY <1>0, <2>1, <2>2, CountedSets DEF Started, Unsent, Skipped
  <2>4. Cardinality(Unsent') = Cardinality(Unsent) - 1
    BY <1>0, <2>3, Counting
  <2> QED  BY <1>0, <1>t, <2>2, <2>3, <2>4 DEF BacklogCounted
<1>5. CASE UNCHANGED loadVars
  BY <1>0, <1>5, SameLines DEF loadVars, countVars, BacklogCounted
<1> QED  BY <1>1, <1>2, <1>3, <1>4, <1>5 DEF LoadNext, Main

(* The inductive invariant. *)
THEOREM LoadInvariant == LoadSafety => []LoadInv
<1>1. LoadInv /\ [LoadNext]_loadVars => LoadInv'
  BY LoadTypeStep, OrderStep, ClientsStep, BacklogStep DEF LoadInv
<1> QED  BY LoadInitInv, <1>1, PTL DEF LoadSafety
-----------------------------------------------------------------------------
(* Every variable has its type. *)
THEOREM LoadTypeCorrect == LoadSafety => []LoadTypeOK
<1>1. LoadInv => LoadTypeOK
  BY DEF LoadInv
<1> QED  BY LoadInvariant, <1>1, PTL

(* Every client that was opened is in the pool, with a request, with the   *)
(* balancer, or lost to a failed post.                                     *)
THEOREM ClientsInOnePlace == LoadSafety => []ClientsAccounted
<1>1. LoadInv => ClientsAccounted
  BY DEF LoadInv
<1> QED  BY LoadInvariant, <1>1, PTL

(* Nobody blocks on putting a client back into the channel. *)
THEOREM NoBlockedPut == LoadSafety => []PutNeverBlocks
BY LoadInvariant, RoomInPool, PTL

(* No more than Clients posts are under way at a time: the limit that      *)
(* HttpMaxConcurrentReqs names.                                            *)
THEOREM PostsBounded == LoadSafety => [](Cardinality(Using) + lost <= Clients)
<1>1. LoadInv => Cardinality(Using) + lost <= Clients
  <2> SUFFICES ASSUME LoadInv PROVE Cardinality(Using) + lost <= Clients
    OBVIOUS
  <2>1. LoadTypeOK /\ ClientsAccounted /\ Cardinality(Using) \in Nat
    BY LinesFinite DEF LoadInv, Using
  <2> QED  BY <2>1, ClientsAssumption DEF LoadTypeOK, ClientsAccounted
<1> QED  BY LoadInvariant, <1>1, PTL

(* The closed loop looks at the requests that are not sent and at the      *)
(* empty lines; sentCount never overtakes schedCount.                      *)
THEOREM BacklogRight == LoadSafety => []BacklogCounted
<1>1. LoadInv => BacklogCounted
  BY DEF LoadInv
<1> QED  BY LoadInvariant, <1>1, PTL
=============================================================================

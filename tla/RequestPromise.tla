--------------------------- MODULE RequestPromise ---------------------------
(***************************************************************************)
(* What ParseRequest (nuapp/src/subquery/subquery.go) promises for one     *)
(* request, without its channel, its waiting map or its timers: the        *)
(* layers of the request are answered in order, every subquery at most     *)
(* once, and the request ends in one of two ways.  Either every known      *)
(* dependency of every layer has answered, and the outcome is the worst    *)
(* status and the slowest dependency; or it gives up, is an error, and     *)
(* blames a dependency of the current layer whose answer it has not seen.  *)
(***************************************************************************)
EXTENDS Integers

CONSTANTS
  Subs,       \* the configured subsystems (keys of the map Subs)
  NoDep,      \* the empty string: no dependency is blamed
  NoOutcome,  \* the request has not been reported yet
  Plans       \* the layer sequences a trace line may hold

VARIABLES
  layers,     \* the layers of this request, each a set of dependency names
  answers,    \* answers seen so far: [at, tp, st, lat]
  outcome     \* NoOutcome, or [st, cp]

vars == <<layers, answers, outcome>>

Hit   == 1
Miss  == 0
Error == -1

(* The worst of the statuses of S; a request that asked nothing is a hit. *)
Worst(S) ==
  IF \E a \in S : a.st = Error THEN Error
  ELSE IF \E a \in S : a.st = Miss THEN Miss ELSE Hit

(* The dependencies that may be blamed for a request answered by S. *)
Slowest(S) ==
  IF \A a \in S : a.lat <= 0
    THEN {NoDep}
    ELSE {a.tp : a \in {b \in S : \A c \in S : c.lat <= b.lat}}

Asked == UNION {{<<k, d>> : d \in layers[k] \cap Subs} : k \in DOMAIN layers}
Open  == Asked \ {<<a.at, a.tp>> : a \in answers}

(* The unanswered subqueries of the first layer that is not complete. *)
Current == {o \in Open : \A p \in Open : o[1] <= p[1]}

Init ==
  /\ layers \in Plans
  /\ answers = {}
  /\ outcome = NoOutcome

Answer ==
  /\ outcome = NoOutcome
  /\ \E a \in answers' \ answers :
       /\ <<a.at, a.tp>> \in Current
       /\ a.st \in {Hit, Miss, Error}
       /\ a.lat \in Int
       /\ answers' = answers \cup {a}
  /\ UNCHANGED <<layers, outcome>>

Complete ==
  /\ outcome = NoOutcome
  /\ Open = {}
  /\ \E cp \in Slowest(answers) : outcome' = [st |-> Worst(answers), cp |-> cp]
  /\ UNCHANGED <<layers, answers>>

GiveUp ==
  /\ outcome = NoOutcome
  /\ \E o \in Current : outcome' = [st |-> Error, cp |-> o[2]]
  /\ UNCHANGED <<layers, answers>>

Next == Answer \/ Complete \/ GiveUp

Safety == Init /\ [][Next]_vars
=============================================================================

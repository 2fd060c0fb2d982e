---------------------------- MODULE MCStatServer ----------------------------
(***************************************************************************)
(* Two application servers: one posts requests and queries together, the   *)
(* other single requests; a ring of two slots, a heap of two.              *)
(***************************************************************************)
EXTENDS StatServer

R(lat, cp) == [tp |-> "req", lat |-> lat, cp |-> cp]
Q(lat) == [tp |-> "q", lat |-> lat, cp |-> ""]

MCSenders == {"s1", "s2"}
MCBatches == [s \in MCSenders |->
  IF s = "s1" THEN {<<R(1, "q"), R(3, "p")>>, <<Q(1), R(2, "q")>>} ELSE {<<R(2, "q")>>}]
MCMaxPosts == [s \in MCSenders |-> IF s = "s1" THEN 1 ELSE 2]
MCTwoPosts == [s \in MCSenders |-> 2]
MCTails == {<<1, 3>>, <<2, 3>>}
MCPercentiles == {<<1, 4>>, <<99, 100>>}
MCCritRange == <<<<1, 2>>, <<1, 1>>>>
=============================================================================

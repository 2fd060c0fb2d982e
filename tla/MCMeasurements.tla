--------------------------- MODULE MCMeasurements ---------------------------
(* Two tails and two requests at channels that are nearly always full: one *)
(* of the tails has room above the threshold of querySequence, the other   *)
(* does not.                                                               *)
EXTENDS Measurements

CONSTANTS w1, w2, r1, r2

MCWorkers  == {w1, w2}
MCRequests == {r1, r2}
=============================================================================

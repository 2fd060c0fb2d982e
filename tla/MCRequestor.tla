---------------------------- MODULE MCRequestor ----------------------------
(* Two clients for two servers; traces of up to four lines. *)
EXTENDS Requestor

MCTraces == UNION {[1 .. n -> {"request", "empty"}] : n \in 0 .. 4}
=============================================================================

--------------------------- MODULE MCControlLoop ---------------------------
(***************************************************************************)
(* Three controllers and one application server: what another one does to  *)
(* the table is what CopyAside does.                                       *)
(***************************************************************************)
EXTENDS ControlLoop

CONSTANTS c1, c2, c3, s1

MCControllers == {c1, c2, c3}
MCServers == {s1}
=============================================================================

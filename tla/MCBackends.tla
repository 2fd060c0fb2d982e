----------------------------- MODULE MCBackends -----------------------------
(***************************************************************************)
(* A database with two connections, one of them beyond the semaphore, and  *)
(* an fb backend with two clients, of which a ping calls only one.         *)
(***************************************************************************)
EXTENDS Backends

MCDeps == <<"db", "fb">>
MCKind == [d \in {"db", "fb"} |-> IF d = "db" THEN "mysql" ELSE "fb"]
MCBackSlots == [d \in {"db", "fb"} |-> IF d = "db" THEN 1 ELSE 2]
MCCallers == {"u1", "u2"}
=============================================================================

---------------------------- MODULE MCController ----------------------------
(* Three caches of 3, 2 and 1 MB in steps of a half.  No cache may shrink  *)
(* to 1 MB, so that the third can only receive at first.  The first stage  *)
(* of the weighted strategies raises the total, the second lowers it by no *)
(* more than a round can steal if the caches are as large as that; the     *)
(* first stage of offline_opt has a limit for two of the caches, the       *)
(* second for one of them.                                                 *)
EXTENDS Controller, TLC

CONSTANTS a, b, c

MCOrder  == <<c, a, b>>
MCSizes  == a :> 3 @@ b :> 2 @@ c :> 1
MCStages == <<8, 6>>
MCSpecs  == <<a :> 1 @@ b :> 4, b :> 2>>
=============================================================================

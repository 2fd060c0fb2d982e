----------------------------- MODULE MCSubquery -----------------------------
(* Ids of which two differ only in case, so two keys; one key per chunk.   *)
(* One subquery may ask for any of them, the other for one key or none.    *)
EXTENDS Subquery, TLC

CONSTANTS w1, w2, f1, fooUpper, foo, bar

MCWorkers     == {w1, w2}
MCFlushers    == {f1}
MCUrls        == {fooUpper, foo, bar}
MCLower       == (fooUpper :> foo) @@ (foo :> foo) @@ (bar :> bar)
MCRequests    == (w1 :> SUBSET MCUrls) @@ (w2 :> {{}, {foo}})
MCOneUrl      == {foo}
MCOneLower    == foo :> foo
MCOneRequests == [w \in MCWorkers |-> {{foo}}]
=============================================================================

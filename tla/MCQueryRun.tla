----------------------------- MODULE MCQueryRun -----------------------------
(* TLC instances of QueryRun: two queries next to two uploads of one title,  *)
(* the second one of which detects the document of the first if it can.      *)
EXTENDS QueryRun, TLC

CONSTANTS u1, u2, q1, q2

MCUploads == {u1, u2}
MCQueries == {q1, q2}
QuerySymmetry == Permutations(MCQueries)
MCTitleOf == [u \in MCUploads |-> "manual"]
MCTarget == (u1 :> "new") @@ (u2 :> "detect")
=============================================================================

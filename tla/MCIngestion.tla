----------------------------- MODULE MCIngestion -----------------------------
(* TLC instances of Ingestion: three uploads whose titles all match.       *)
EXTENDS Ingestion, TLC

CONSTANTS u1, u2, u3

MCUploads == {u1, u2, u3}
MCTitleOf == [u \in MCUploads |-> "manual"]
MCTarget == (u1 :> "detect") @@ (u2 :> "detect") @@ (u3 :> "explicit")
=============================================================================

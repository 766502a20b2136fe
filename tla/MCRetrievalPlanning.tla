------------------------- MODULE MCRetrievalPlanning -------------------------
(* Finite instances of RetrievalPlanning.                                  *)
EXTENDS RetrievalPlanning

MCOffers == {Strategies, {"hybrid", "contextual", "rerank"}}
MCTopKs == {3, 10}
MCMultipliers == {<<3, 2>>}
MCScopes == {{}, {"document"}, {"version"}}
=============================================================================

----------------------- MODULE MCInformationNeedGraph -----------------------
(* Finite instances of the information-need graph.                         *)
EXTENDS InformationNeedGraph, TLC

CONSTANTS c1, c2, c3

OneChunk == {c1}
ThreeChunks == {c1, c2, c3}
NoChunks == {}

\* Every chunk is of a document of its own.
EachItsOwn == [k \in {c1, c2, c3} |-> k]

Symmetry == Permutations({c1, c2, c3})
=============================================================================

----------------------------- MODULE MCAnswering -----------------------------
(* Finite instances of Answering.                                          *)
EXTENDS Answering

MCRepairs == [s \in Stages |-> IF s = "decompose" THEN 0 ELSE 1]
MCFailOpen == Stages \ {"classify"}
=============================================================================

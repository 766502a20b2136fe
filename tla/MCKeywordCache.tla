---------------------------- MODULE MCKeywordCache ----------------------------
(* TLC instances of KeywordCache.                                          *)
EXTENDS KeywordCache

CONSTANTS s1, s2, i1

MCSearchers == {s1, s2}
MCIngestions == {i1}
=============================================================================

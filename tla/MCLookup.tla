------------------------------- MODULE MCLookup -------------------------------
(* Finite instances of Lookup.                                             *)
EXTENDS Lookup

P(d, v) == [doc |-> d, version |-> v, part |-> 1]
AllPoints == {P("a", 1), P("a", 2), P("a", 3), P("b", 1), P("b", 2)}
FewPoints == AllPoints \ {P("b", 1)}

Ask(strategies, modes, dates, names, topKs, primaries, points) ==
    [strategy: strategies, fixed: {FALSE}, mode: modes, numbers: {{2}}, dated: dates,
     range: {{1, 2}}, named: names, topK: topKs, preferred: primaries,
     points: {points}, plain: {{}, {P("a", 2)}}, flat: {{}, {P("b", 2)}}]

Simple(r) ==
    /\ r.strategy # "hierarchical" => r.flat = {}
    /\ r.strategy \notin {"hierarchical", "contextual"} => r.plain = {}

\* The same lookup by a fixed pipeline.
Fixed(rs) == {[r EXCEPT !.fixed = TRUE] : r \in rs}

MCRequests ==
    {r \in Ask({"baseline"}, Modes, BOOLEAN, {{}, {"a"}}, {1, 3}, {{}, {"a"}}, AllPoints)
       \cup Ask({"hybrid", "multi_query"}, {"all", "latest", "latest_and_previous", "oldest"},
                BOOLEAN, {{}}, {1, 3}, {{}}, FewPoints)
       \cup Ask({"hierarchical"}, {"all", "latest", "previous"}, BOOLEAN, {{}, {"a"}},
                {1, 3}, {{}}, FewPoints)
       \cup Ask({"rerank"}, {"all", "latest"}, {FALSE}, {{"b"}}, {1, 3}, {{}, {"b"}}, FewPoints)
       \cup Ask({"contextual"}, {"latest"}, BOOLEAN, {{}}, {1}, {{"a"}}, FewPoints)
       \cup Fixed(Ask({"baseline", "hierarchical"}, {"latest", "previous"}, BOOLEAN, {{"a"}}, {1},
                      {{}}, AllPoints))
       \cup Fixed(Ask({"llm_rerank"}, {"all", "latest"}, {FALSE}, {{}}, {1, 2}, {{}}, FewPoints))
     : Simple(r)}

MCNewest == [d \in {"a", "b"} |-> IF d = "a" THEN 3 ELSE 2]
MCKey == [p \in AllPoints |-> p.version + IF p.doc = "a" THEN 2 ELSE 0]
MCWeight == [s \in {"vector", "keyword", "original", "variant"} |->
                IF s = "original" THEN 6 ELSE 5]
MCPool == [factor |-> 3, limit |-> 5]
MCWide == [factor |-> 2, limit |-> 4]
MCDeep == [factor |-> 2, limit |-> 4]
MCShares == [primaryMin |-> 6, primaryMax |-> 8, secondary |-> 4, unpreferred |-> 6]
=============================================================================

------------------------------ MODULE MCSearch ------------------------------
(* Values for model checking HybridSearch: hypotheses, a bare fact and an info  *)
(* leaf with or without dates, the text's order against the vectors'.           *)
EXTENDS HybridSearch

LeafOf(id, root, conf, day, f, s) ==
    [id |-> id, root |-> root, conf |-> conf, repo |-> IF id % 2 = 0 THEN "r" ELSE "s", from |-> day,
     to |-> IF day = 1 THEN 2 ELSE 0, fts |-> f, sim |-> s, emb |-> s > 0, ann |-> s = 2]
LeafKinds == {<<"facts", "hypothesis", 2>>, <<"facts", "", 1>>, <<"info", "confirmed", 0>>}
MCBrains ==
    {{LeafOf(id, k[id][1], k[id][2], k[id][3], f[id], s[id]) : id \in 1..4} :
        k \in {g \in [1..4 -> LeafKinds] : g[4] = <<"info", "confirmed", 0>>},
        f \in {<<1, 2, 3, 4>>, <<0, 3, 3, 0>>, <<3, 0, 2, 1>>}, s \in {<<1, 3, 4, 5>>, <<2, 0, 2, 1>>, <<1, 1, 1, 0>>}}
MCAsks ==
    {[limit |-> n, root |-> r, repo |-> p, asOf |-> d, sort |-> o, noWeb |-> FALSE] :
        n \in {1, 2}, r \in {"", "facts"}, p \in {"", "r"}, d \in {0, 3}, o \in {"", "asc"}}
      \cup {[limit |-> 2, root |-> "", repo |-> "", asOf |-> 1, sort |-> "desc", noWeb |-> TRUE]}

SearchSpec == SearchInit /\ [][SearchNext]_searchVars
=============================================================================

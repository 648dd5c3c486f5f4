------------------------------- MODULE Ranking -------------------------------
(***************************************************************************)
(* What a sort makes of a set: a list of all its members, in which nothing *)
(* stands behind what it comes before.  Members that are equal in rank     *)
(* come in any order.                                                      *)
(***************************************************************************)
EXTENDS Integers, FiniteSets

Ranked(S, Better(_, _)) ==
    {s \in [1..Cardinality(S) -> S] : \A i, j \in DOMAIN s : i < j => s[i] # s[j] /\ ~Better(s[j], s[i])}
=============================================================================

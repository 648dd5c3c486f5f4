---------------------------- MODULE HybridSearch ----------------------------
(***************************************************************************)
(* A search of the brain: the best matches of the text index and the best  *)
(* of the vectors (ANN index, or a scan of the leafs) are fused by         *)
(* reciprocal rank, filtered, sorted and cut; without a confirmed fact in  *)
(* the answer the web is asked as well.                                    *)
(***************************************************************************)
EXTENDS Integers, FiniteSets, Sequences, SequencesExt, Ranking

CONSTANTS
    Brains,   \* what the database holds: sets of leafs [id, root, conf, repo,
              \* from, to, fts, sim, emb, ann]; fts = 0: the text does not match
    Asks      \* [limit, root, repo, asOf, sort, noWeb]; 0 or "" for none

ASSUME SearchAssumption ==
    /\ \A b \in Brains : /\ IsFiniteSet(b)
                         /\ \A l \in b : l.id \in Int /\ l.from \in Int
                         /\ \A l, m \in b : l.id = m.id => l = m
    /\ \A a \in Asks : a.limit \in Nat \ {0}

VARIABLES held, ask, spc, fts, vec, results, web

searchVars == <<held, ask, spc, fts, vec, results, web>>

Cut(s, n) == SubSeq(s, 1, IF Len(s) < n THEN Len(s) ELSE n)

-----------------------------------------------------------------------------
(* The candidates.                                                           *)

TextMatches == {l \in held : l.fts > 0}

closer(a, b) == a.sim > b.sim \/ (a.sim = b.sim /\ a.id < b.id)
Scanned == {l \in held : l.emb}
Indexed == {l \in held : l.ann}

\* An index that is off, absent or empty leaves the scan.
Neighbours == IF Indexed # {} THEN Indexed ELSE Scanned

\* Matches that score the same come in any order.
queryFTS(n) == {Cut(s, n) : s \in Ranked(TextMatches, LAMBDA a, b : a.fts > b.fts)}
queryVector(n) == {Cut(s, n) : s \in Ranked(Neighbours, closer)}

-----------------------------------------------------------------------------
(* Fusion: a hit at rank r of a list adds 1 / (60 + r) to its leaf.          *)

rrfK == 60
One == 2000000000
score(s, l) == IF \E r \in DOMAIN s : s[r] = l
               THEN One \div (rrfK + (CHOOSE r \in DOMAIN s : s[r] = l)) ELSE 0
fused(f, v, l) == score(f, l) + score(v, l)
higher(f, v, a, b) == fused(f, v, a) > fused(f, v, b) \/ (fused(f, v, a) = fused(f, v, b) /\ a.id < b.id)
Found(f, v) == ToSet(f) \cup ToSet(v)
Hybrid(f, v) == Ranked(Found(f, v), LAMBDA a, b : higher(f, v, a, b))

FilterRoot(l) == ask.root = "" \/ l.root = ask.root
FilterRepo(l) == ask.repo = "" \/ l.repo = ask.repo

\* A leaf without an interval is always active.
ActiveAsOf(l) == (l.from = 0 \/ ask.asOf >= l.from) /\ (l.to = 0 \/ ask.asOf <= l.to)
FilterAsOf(l) == ask.asOf = 0 \/ ActiveAsOf(l)
Passes(l) == FilterRoot(l) /\ FilterRepo(l) /\ FilterAsOf(l)

\* Undated hits come last in either direction; ties keep their order.
earlier(a, b) == a.from # b.from /\ a.from # 0 /\
                 (b.from = 0 \/ IF ask.sort = "desc" THEN a.from > b.from ELSE a.from < b.from)
pos(s, l) == CHOOSE r \in DOMAIN s : s[r] = l
ByDate(s, a, b) ==
    IF ask.sort = "" THEN pos(s, a) < pos(s, b)
    ELSE earlier(a, b) \/ (~earlier(b, a) /\ pos(s, a) < pos(s, b))

\* Mutant: the list is cut before it is filtered.
RankCutFirst(f, v) ==
    UNION {Ranked({l \in ToSet(Cut(h, ask.limit)) : Passes(l)}, LAMBDA a, b : ByDate(h, a, b)) :
           h \in Hybrid(f, v)}
RankAndFilterSort(f, v) ==
    UNION {{Cut(d, ask.limit) : d \in Ranked({l \in Found(f, v) : Passes(l)}, LAMBDA a, b : ByDate(h, a, b))} :
           h \in Hybrid(f, v)}

\* A hypothesis is no fact; a fact without a confidence is one.
ConfirmedFact(l) == l.root = "facts" /\ l.conf \notin {"hypothesis", "partial"}
ShouldEscalate(hits) == ask.root = "" /\ ~\E l \in ToSet(hits) : ConfirmedFact(l)

-----------------------------------------------------------------------------
(* A failing text index ends the search, a failing vector search does not.   *)

SearchText ==
    /\ spc = "text"
    /\ \/ spc' = "vector" /\ fts' \in queryFTS(3 * ask.limit)
       \/ spc' = "failed" /\ UNCHANGED fts
    /\ UNCHANGED <<held, ask, vec, results, web>>

SearchVector ==
    /\ spc = "vector" /\ spc' = "rank"
    /\ vec' \in queryVector(3 * ask.limit) \cup {<<>>}
    /\ UNCHANGED <<held, ask, fts, results, web>>

Answer ==
    /\ spc = "rank" /\ spc' = "done"
    /\ results' \in RankAndFilterSort(fts, vec)
    /\ web' = (~ask.noWeb /\ ShouldEscalate(results'))
    /\ UNCHANGED <<held, ask, fts, vec>>

SearchInit ==
    /\ held \in Brains /\ ask \in Asks /\ spc = "text"
    /\ fts = <<>> /\ vec = <<>> /\ results = <<>> /\ web = FALSE

SearchNext == SearchText \/ SearchVector \/ Answer

-----------------------------------------------------------------------------
(* Nothing better is left out: every hit passes the filters, and a match of  *)
(* the text or the vectors that passes them and is not in the answer finds   *)
(* the answer full of hits that come before it, in the order of the dates or *)
(* of the full fused ranking -- provided that the matches fit into three     *)
(* times the limit, where the lists are cut before any filter has seen them. *)
Before(a, b) ==
    IF ask.sort # "" /\ (earlier(a, b) \/ earlier(b, a)) THEN earlier(a, b) ELSE higher(fts, vec, a, b)

NothingBetterIsLeftOut ==
    spc = "done" /\ Cardinality(TextMatches) <= 3 * ask.limit /\ Cardinality(Neighbours) <= 3 * ask.limit =>
        LET found == TextMatches \cup (IF vec = <<>> THEN {} ELSE Neighbours)
        IN /\ \A l \in ToSet(results) : Passes(l)
           /\ \A l \in found : Passes(l) /\ l \notin ToSet(results) =>
                 Len(results) = ask.limit /\ \A h \in ToSet(results) : Before(h, l)

(* Filters come before the cut, so that a search of one root is not empty     *)
(* while the text of a leaf of that root matches ("`--root facts` came back   *)
(* empty whenever info leafs filled the top N", rank.go:37).                  *)
FilteredIsFound ==
    (/\ spc = "done" /\ ask.root # "" /\ ask.repo = "" /\ ask.asOf = 0
     /\ \E l \in TextMatches : FilterRoot(l)) => results # <<>>
=============================================================================

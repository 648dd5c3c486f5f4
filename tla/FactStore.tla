------------------------------ MODULE FactStore ------------------------------
(***************************************************************************)
(* The facts root of kb.lbug and everybody who writes it: facts/extract    *)
(* and facts/prove-crm (two sources each), facts/promote (info leafs whose *)
(* source names two), brain-index with its fact files, and clients of the  *)
(* brain, who may write any root.                                          *)
(*                                                                         *)
(* A source `a x b vs c x d` is [yes |-> <<a, b>>, no |-> <<c, d>>].  A    *)
(* leaf is identified by source, external id, type and text.               *)
(***************************************************************************)
EXTENDS Integers, FiniteSets, Sequences, SequencesExt

CONSTANTS
    Worlds,        \* what there is to extract from, see MCJobs
    Words,         \* the words of each company name and label
    Stopwords,     \* companyStopwords and words of fewer than four letters
    InfoLeafs,     \* leafs of the corpora
    JsonFacts,     \* rows of --facts-json
    ClientLeafs,   \* leafs clients add
    MaxFactJobs    \* bound on programs run

LeafSource == [yes : Seq(STRING), no : Seq(STRING)]
LeafRecord == [id : [text : Seq(STRING), source : LeafSource, eid : STRING, type : STRING],
               row : [root : STRING, conf : STRING, how : STRING, loc : STRING]]

\* The corpora hold no facts, and no compose file is called "docker ps".
ASSUME FactAssumption ==
    /\ InfoLeafs \subseteq LeafRecord /\ JsonFacts \subseteq LeafRecord /\ ClientLeafs \subseteq LeafRecord
    /\ \A l \in InfoLeafs : l.row.root # "facts"
    /\ \A w \in Worlds :
         /\ DOMAIN w.composes = 1 .. Len(w.composes) /\ Len(w.composes) \in Nat
         /\ \A i \in DOMAIN w.composes : w.composes[i].base # "docker ps"
         /\ \A v \in Worlds : w.running \subseteq DOMAIN v.dir
         /\ \A n \in DOMAIN w.dir :
              /\ DOMAIN w.dir[n] \subseteq Nat
              /\ \A i \in DOMAIN w.dir[n] : w.dir[n][i].base # "docker ps"

VARIABLES
    world,    \* containers, compose files, ssh hosts, documents, mesh, CRM
    leafs,    \* the leafs of the database, by identity
    running,  \* what `docker ps` printed
    job,      \* the program that has the database open, or "idle"
    toWrite,     \* what it is still going to write
    byHand,   \* leafs somebody entered as facts, whatever their evidence
    factJobs

factVars == <<world, leafs, running, job, toWrite, byHand, factJobs>>

-----------------------------------------------------------------------------
(* Evidence. *)

Pair(a, b) == [yes |-> <<a, b>>, no |-> <<>>]

\* The pieces of a source between ` x `: ` vs ` is no separator.
Parts(s) ==
    LET pieces(q) == {<<q[i]>> : i \in DOMAIN q} IN
    IF s.no = <<>> THEN pieces(s.yes)
    ELSE pieces(Front(s.yes)) \cup {<<Last(s.yes), Head(s.no)>>} \cup pieces(Tail(s.no))

\* Mutant: repeated pieces count again.
SourceCountAll(s) == Len(s.yes) + (IF s.no = <<>> THEN 0 ELSE Len(s.no) - 1)
SourceCount(s) == Cardinality(Parts(s))

\* CheckFactRow: the problems the evidence audit reports for a leaf.
CheckFactRow(id, row) ==
    LET s == id.source IN
    {p \in {"vs", "one source", "no pairs", "confidence", "loc", "how"} :
        \/ p = "vs" /\ row.conf = "confirmed" /\ s.no # <<>>
        \/ p = "one source" /\ row.conf = "confirmed" /\ Len(s.yes) < 2 /\ Len(s.no) < 2
        \/ p = "no pairs" /\ row.conf = "hypothesis" /\ ~(Len(s.yes) > 1 /\ Len(s.no) > 1)
        \/ p = "confidence" /\ row.conf \notin {"confirmed", "hypothesis", "partial"}
        \/ p = "loc" /\ row.loc = ""
        \/ p = "how" /\ row.how = ""}

\* Gate: what the client library presents as a confirmed fact.
Gate(row) == row.root = "facts" /\ row.conf \in {"", "confirmed"}

-----------------------------------------------------------------------------
(* Leafs. *)

Leaf(text, source, eid, type, root, conf, how, loc) ==
    [id |-> [text |-> text, source |-> source, eid |-> eid, type |-> type],
     row |-> [root |-> root, conf |-> conf, how |-> how, loc |-> loc]]

Or(v, default) == IF v = "" THEN default ELSE v

\* UpsertLeaf of write.go: every column is set, whatever it was before.
StoredRow(l) == [root |-> Or(l.row.root, "info"), conf |-> Or(l.row.conf, "confirmed"),
             how |-> Or(l.row.how, "brain/add"), loc |-> Or(l.row.loc, "the source")]
UpsertRow(db, l) == [id \in DOMAIN db \cup {l.id} |-> IF id = l.id THEN StoredRow(l) ELSE db[id]]

\* Of several leafs of one identity the one written last stays.
Survivors(ls) == {s \in SUBSET ls : /\ {l.id : l \in s} = {l.id : l \in ls}
                                    /\ \A l, m \in s : l.id = m.id => l = m}
AddRows(db, ls) ==
    {[id \in DOMAIN db \cup {l.id : l \in s} |->
        IF \E l \in s : l.id = id THEN StoredRow(CHOOSE l \in s : l.id = id) ELSE db[id]] : s \in Survivors(ls)}

Fact(text, a, b, type, how) == Leaf(text, Pair(a, b), "", type, "facts", "confirmed", how, "loc")

-----------------------------------------------------------------------------
(* facts/extract. *)

\* The container's own compose files that declare it; the first is taken.
Declaring(name) == {i \in DOMAIN world.dir[name] : name \in world.dir[name][i].services}
ComposeOf(name) == world.dir[name][CHOOSE i \in Declaring(name) : \A j \in Declaring(name) : i <= j]

PairedFacts(names) ==
    {Fact(<<"declared", n, ComposeOf(n).base>>, "docker ps", ComposeOf(n).base, "fact", "facts/extract") :
        n \in {m \in names : Declaring(m) # {}}}

\* Whichever file declares the service, the first one is cited.
ComposeFacts(names) ==
    LET declared == UNION {f.services : f \in ToSet(world.composes)} IN
    {Fact(<<"in compose", n>>, "docker ps", world.composes[1].base, "fact", "facts/extract") :
        n \in names \cap declared}

HostFacts ==
    {Fact(<<"configured", h>>, "ssh config", "docs", "fact", "facts/extract") :
        h \in world.ssh \cap world.documented}
KnownFacts(names) ==
    {Fact(<<"matches host", n>>, "docker ps", "ssh config", "fact", "facts/extract") :
        n \in names \cap world.ssh}

BuildFacts(names) == PairedFacts(names) \cup ComposeFacts(names) \cup HostFacts \cup KnownFacts(names)

-----------------------------------------------------------------------------
(* facts/prove-crm: orgs of the mesh file x companies of the CRM. *)

SignificantTokens(label) == Words[label] \ Stopwords

MatchCompanyName(label, names) ==
    SelectSeq(names, LAMBDA n : SignificantTokens(label) \cap Words[n] # {})

Label(o) == Or(o.label, o.id)
CompanyNames == [i \in DOMAIN world.companies |-> world.companies[i].name]

Associated(who, what) == Fact(<<"associated", who, what>>, "ooCRM", "mesh", "association", "crm-crosscheck")
PersonsOf(name) == UNION {c.persons : c \in {d \in ToSet(world.companies) : d.name = name}}
MatchedCompany(o) == MatchCompanyName(Label(o), CompanyNames)
OrgLabels == [i \in DOMAIN world.orgs |-> Label(world.orgs[i])]

CRMAssocFacts ==
    (UNION {{Associated(p, o.label) : p \in PersonsOf(MatchedCompany(o)[1])} :
              o \in {q \in ToSet(world.orgs) : MatchedCompany(q) # <<>>}})
    \cup
    (UNION {{Associated(c, pr.title) : c \in {d \in pr.companies : MatchCompanyName(d, OrgLabels) # <<>>}} :
              pr \in world.projects})

-----------------------------------------------------------------------------
(* facts/promote. *)

\* EligibleInfoLeafs: the external id is not read, so a leaf that has one gets a
\* second identity.
InfoRows ==
    {Leaf(id.text, id.source, "", id.type, leafs[id].root, leafs[id].conf, leafs[id].how, leafs[id].loc) :
        id \in {i \in DOMAIN leafs : leafs[i].root = "info" /\ leafs[i].conf = "confirmed"}}

PromoteEligible(ls) ==
    {[id |-> l.id,
      row |-> [root |-> "facts", conf |-> l.row.conf, loc |-> l.row.loc,
               how |-> IF l.row.how \in {"", "kb/index"} THEN "facts/promote" ELSE l.row.how]] :
        l \in {m \in ls : /\ m.row.root \in {"", "info"} /\ m.row.conf \in {"", "confirmed"}
                          /\ SourceCount(m.id.source) >= 2}}

-----------------------------------------------------------------------------
FactInit ==
    /\ world \in Worlds
    /\ leafs = <<>> /\ running = {} /\ job = "idle" /\ toWrite = {} /\ byHand = {} /\ factJobs = 0

WorldChanges ==
    /\ world' \in Worlds \ {world}
    /\ UNCHANGED <<leafs, running, job, toWrite, byHand, factJobs>>

StartTool(tool) ==
    /\ job = "idle" /\ factJobs < MaxFactJobs
    /\ job' = tool /\ factJobs' = factJobs + 1

\* The containers are listed first, the files are read afterwards.
DockerPS ==
    /\ StartTool("docker ps") /\ running' = world.running
    /\ UNCHANGED <<world, leafs, toWrite, byHand>>

Extract ==
    /\ job = "docker ps"
    /\ \/ job' = "write" /\ toWrite' = BuildFacts(running)
       \/ job' = "idle" /\ toWrite' = {}     \* --dry-run
    /\ UNCHANGED <<world, leafs, running, byHand, factJobs>>

ProveCRM ==
    /\ StartTool("write") /\ toWrite' = CRMAssocFacts
    /\ UNCHANGED <<world, leafs, running, byHand>>

\* brain-index: the database is removed, the corpora and the facts written anew.
\* Every row of a facts file is a confirmed fact.
Rebuild(json) ==
    /\ StartTool("write") /\ leafs' = <<>>
    /\ LET entered == {[l EXCEPT !.row.root = "facts", !.row.conf = "confirmed", !.id.type = "fact"] : l \in json} IN
       /\ toWrite' = InfoLeafs \cup BuildFacts(world.running) \cup entered
       /\ byHand' = {l.id : l \in entered}
    /\ UNCHANGED <<world, running>>

\* One leaf after the other, each a transaction of its own.
WriteFact ==
    /\ job = "write"
    /\ IF toWrite = {} THEN job' = "idle" /\ UNCHANGED <<leafs, toWrite>>
       ELSE \E l \in toWrite : leafs' = UpsertRow(leafs, l) /\ toWrite' = toWrite \ {l} /\ UNCHANGED job
    /\ UNCHANGED <<world, running, byHand, factJobs>>

FactToolDies ==
    /\ job = "write" /\ job' = "idle" /\ toWrite' = {}
    /\ UNCHANGED <<world, leafs, running, byHand, factJobs>>

\* facts/promote, in one transaction, which may fail.
Promote ==
    /\ job = "idle" /\ factJobs < MaxFactJobs /\ factJobs' = factJobs + 1
    /\ leafs' \in {leafs} \cup AddRows(leafs, PromoteEligible(InfoRows))
    /\ UNCHANGED <<world, running, job, toWrite, byHand>>

\* A client adds a leaf to the brain that serves the database.
ClientAdds(l) ==
    /\ job = "idle" /\ factJobs < MaxFactJobs /\ factJobs' = factJobs + 1
    /\ leafs' = UpsertRow(leafs, l)
    /\ byHand' = IF l.row.root = "facts" THEN byHand \cup {l.id} ELSE byHand
    /\ UNCHANGED <<world, running, job, toWrite>>

FactNext ==
    \/ WorldChanges \/ DockerPS \/ Extract \/ ProveCRM \/ WriteFact \/ FactToolDies \/ Promote
    \/ \E json \in SUBSET JsonFacts : Rebuild(json)
    \/ \E l \in ClientLeafs : ClientAdds(l)

-----------------------------------------------------------------------------
(* What a client is shown as a confirmed fact names two different sources,   *)
(* whichever programs wrote it and in which order, and the evidence audit has *)
(* nothing against it, unless somebody entered it as a fact.  Claims with     *)
(* sources on both sides (` vs `) are no exception: promote shows them as     *)
(* confirmed facts, and the audit's objection to that is its only one.        *)
FactsAreEvidenced ==
    \A id \in DOMAIN leafs \ byHand :
        Gate(leafs[id]) =>
            /\ Cardinality(Parts(id.source)) >= 2
            /\ CheckFactRow(id, leafs[id]) = IF id.source.no = <<>> THEN {} ELSE {"vs"}
=============================================================================

------------------------------ MODULE FactAudit ------------------------------
(***************************************************************************)
(* Auditing facts: the cards facts/audit-card appends to the source of     *)
(* truth file, several at a time and without a lock, and the two audits    *)
(* that only compute: `audit formal` (facts about resources, URL by URL)   *)
(* and `audit contradict` (evidence for and against a claim).              *)
(*                                                                         *)
(* Days are numbers, NoDay an interval's open end.  A URL is a resource    *)
(* and a spelling; CanonicalURL leaves the resource.                       *)
(***************************************************************************)
EXTENDS Integers, FiniteSets, Sequences, SequencesExt

CONSTANTS
    Writers,       \* processes of audit-card
    Cards,         \* cards they are asked to append
    FactRows,      \* facts on the standard input of `audit formal`: sets of rows
    Claims,        \* claims on the standard input of `audit contradict`
    Days,          \* days of the calendar
    NoDay,
    MaxCards,      \* bound on cards appended
    MaxCardFaults  \* bound on processes killed

\* What the source of a claim says of itself; of the kinds it may name, "runtime"
\* and "config" are first-hand.
EvidenceSource == [id : STRING, kind : STRING, stale : BOOLEAN]

ASSUME AuditAssumption ==
    /\ Days \subseteq Int /\ Days # {} /\ NoDay \notin Days
    /\ \A fs \in FactRows : \A f \in fs : f.neg \in BOOLEAN /\ {f.from, f.to} \subseteq Days \cup {NoDay}
    /\ \A c \in Claims : c.yes \in Seq(EvidenceSource) /\ c.no \in Seq(EvidenceSource)

VARIABLES
    sot, file,   \* audits[] of the source of truth; the file of it is "whole", "empty"
                 \* or "mixed" of two writes
    wpc, wread,  \* per writer: what it does, and the cards it has read
    wmixed,      \* per writer: the file it has read was mixed
    wcard,       \* per writer: the card
    appended,    \* cards appended so far
    rows, claim, \* input of the audits
    cardFaults

auditVars == <<sot, file, wpc, wread, wmixed, wcard, appended, rows, claim, cardFaults>>

-----------------------------------------------------------------------------
(* Cards. *)

Verdicts == {"accept", "reject", "weaken"}
Inferences == {"deduction", "induction", "analogy", "other"}

\* ValidateAuditCard; splitList has dropped empty premises.
ValidateAuditCard(c) ==
    /\ c.claim # "" /\ c.date # "" /\ c.counter # ""
    /\ c.premises # {} /\ "" \notin c.premises
    /\ c.inference \in Inferences /\ c.verdict \in Verdicts

\* Mutant: the next number by counting.
NextAuditIDCount(ids) == Cardinality(ids) + 1

\* Ids that are not AUD-<number> do not count.
NextAuditID(ids) == 1 + (IF ids \cap Nat = {} THEN 0 ELSE CHOOSE m \in ids \cap Nat : \A n \in ids \cap Nat : n <= m)

AuditIds(cards) == {cards[i].id : i \in DOMAIN cards}

AuditInit ==
    /\ sot = <<>> /\ file = "whole" /\ appended = 0 /\ cardFaults = 0
    /\ wpc = [w \in Writers |-> "idle"]
    /\ wread = [w \in Writers |-> <<>>] /\ wmixed = [w \in Writers |-> FALSE]
    /\ wcard = [w \in Writers |-> CHOOSE c \in Cards : TRUE]
    /\ rows \in FactRows /\ claim \in Claims

\* AppendAuditCard reads the file.  Of an empty file there is no root node to
\* look at: the process panics.  A mixed one may parse.
ReadSoT(w, c) ==
    /\ wpc[w] = "idle" /\ appended < MaxCards /\ ValidateAuditCard(c)
    /\ file # "empty"
    /\ wpc' = [wpc EXCEPT ![w] = "write"]
    /\ wread' = [wread EXCEPT ![w] = sot] /\ wmixed' = [wmixed EXCEPT ![w] = file = "mixed"]
    /\ wcard' = [wcard EXCEPT ![w] = c]
    /\ appended' = appended + 1
    /\ UNCHANGED <<sot, file, rows, claim, cardFaults>>

\* writeFilePreservingMode truncates the file,
Truncate(w) ==
    /\ wpc[w] = "write" /\ wpc' = [wpc EXCEPT ![w] = "fill"]
    /\ file' = "empty"
    /\ UNCHANGED <<sot, wread, wmixed, wcard, appended, rows, claim, cardFaults>>

\* then writes what was read and the card, from the first byte on.  What another
\* writer has put there since the file was truncated is overwritten as far as this
\* write reaches: the end of a longer one stays.
Fill(w) ==
    /\ wpc[w] = "fill" /\ wpc' = [wpc EXCEPT ![w] = "idle"]
    /\ sot' = Append(wread[w], [id |-> NextAuditID(AuditIds(wread[w])), card |-> wcard[w]])
    /\ \/ ~wmixed[w] /\ file' = "whole"
       \/ (wmixed[w] \/ file # "empty") /\ file' = "mixed"
    /\ UNCHANGED <<wread, wmixed, wcard, appended, rows, claim, cardFaults>>

\* A process is killed, or the disk is full; part of its write may be there.
WriterDies(w) ==
    /\ wpc[w] # "idle" /\ cardFaults < MaxCardFaults
    /\ cardFaults' = cardFaults + 1
    /\ wpc' = [wpc EXCEPT ![w] = "idle"]
    /\ \/ UNCHANGED file
       \/ wpc[w] = "fill" /\ file' = "mixed"
    /\ UNCHANGED <<sot, wread, wmixed, wcard, appended, rows, claim>>

\* Somebody removes a card from the file, or restores the file.
EditSoT ==
    /\ file' = "whole"
    /\ \/ file # "whole" /\ sot' = <<>>
       \/ file = "whole" /\ \E i \in DOMAIN sot : sot' = RemoveAt(sot, i)
    /\ UNCHANGED <<wpc, wread, wmixed, wcard, appended, rows, claim, cardFaults>>

AuditNext ==
    \/ EditSoT
    \/ \E w \in Writers :
         \/ Truncate(w) \/ Fill(w) \/ WriterDies(w)
         \/ \E c \in Cards : ReadSoT(w, c)

-----------------------------------------------------------------------------
(* audit formal. *)

\* Crisp: confirmed, and about one attribute.
Crisp(f) == f.attr # "" /\ f.conf \in {"", "confirmed"}

HasURL(f) == f.url.ok /\ f.url.resource # ""
CanonicalURL(f) == f.url.resource

ActiveAt(f, day) == (f.from = NoDay \/ f.from <= day) /\ (f.to = NoDay \/ day <= f.to)

\* Mutant: intervals that meet in one day do not overlap.
IntervalsOverlapStrict(a, b) ==
    /\ a.to = NoDay \/ b.from = NoDay \/ b.from < a.to
    /\ b.to = NoDay \/ a.from = NoDay \/ a.from < b.to
IntervalsOverlap(a, b) ==
    /\ a.to = NoDay \/ b.from = NoDay \/ b.from <= a.to
    /\ b.to = NoDay \/ a.from = NoDay \/ a.from <= b.to

Problem(rule, ids, verdict) == [rule |-> rule, ids |-> ids, verdict |-> verdict]

CheckURLIdentity(fs) ==
    LET urls == {f \in fs : HasURL(f)}
        like(f) == {g \in urls : CanonicalURL(g) = CanonicalURL(f)}
    IN {Problem("identity", {f.id}, "weaken") : f \in {g \in fs : ~g.url.ok}}
       \cup {Problem("identity", {g.id : g \in like(f)}, "weaken") :
               f \in {g \in urls : Cardinality({h.url : h \in like(g)}) > 1}}

CheckURLContradiction(fs) ==
    LET crisp == {f \in fs : Crisp(f) /\ HasURL(f)}
        group(f) == {g \in crisp : CanonicalURL(g) = CanonicalURL(f) /\ g.attr = f.attr}
        clash(f) == \E a, b \in group(f) : ~a.neg /\ b.neg /\ IntervalsOverlap(a, b)
    IN {Problem("contradiction", {g.id : g \in group(f)}, "reject") : f \in {g \in crisp : clash(g)}}

\* An OPEN- row is a question and need not be crisp.
CheckExcludedMiddle(fs) ==
    {Problem("excluded middle", {f.id}, "weaken") : f \in {g \in fs : g.fact /\ ~Crisp(g)}}

\* The acceptance of a claim needs FACT- or OPEN- premises.
CheckSufficientReason(c) ==
    IF c.verdict = "accept" /\ \E p \in c.premises : p \notin {"FACT-", "OPEN-"}
    THEN {Problem("sufficient reason", {c.claim}, "reject")} ELSE {}

CheckFormal(fs) == CheckURLIdentity(fs) \cup CheckURLContradiction(fs) \cup CheckExcludedMiddle(fs)

AuditFormal(cs) == CheckFormal(rows) \cup UNION {CheckSufficientReason(c) : c \in cs}

-----------------------------------------------------------------------------
(* audit contradict.  A source without a name counts by kind and position. *)

Independent(ss) ==
    Cardinality({IF ss[i].id = "" THEN <<ss[i].kind, i>> ELSE <<ss[i].id>> : i \in DOMAIN ss})

\* Both count entries of the list: a source listed twice counts twice.
FreshN(ss) == Cardinality({i \in DOMAIN ss : ~ss[i].stale})
StrongN(ss) == Cardinality({i \in DOMAIN ss : ss[i].kind \in {"runtime", "config"}})

Out(conf, rule, winner) == [conf |-> conf, rule |-> rule, winner |-> winner]

Adjudicate(c) ==
    LET two(n, m) == n >= 2 /\ m < 2
        side(m(_), rule) ==
            IF two(m(c.yes), m(c.no)) THEN Out("confirmed", rule, "yes")
            ELSE Out("confirmed", rule, "no")
        decides(m(_)) == two(m(c.yes), m(c.no)) \/ two(m(c.no), m(c.yes))
    IN CASE decides(Independent) -> side(Independent, "two_source")
         [] Independent(c.yes) < 2 /\ Independent(c.no) < 2 -> Out("hypothesis", "single_source", "")
         [] OTHER -> IF decides(FreshN) THEN side(FreshN, "temporal_freshness")
                     ELSE IF decides(StrongN) THEN side(StrongN, "authority_pairing")
                     ELSE Out("hypothesis", "unresolved", "")

-----------------------------------------------------------------------------
(* No two cards of the file share a number, whoever appends at the same time, *)
(* dies while writing or removes cards by hand, as long as the file is not     *)
(* empty or mixed: of two writers at once, one may leave its end behind the    *)
(* other's shorter text.                                                       *)
AuditIdsUnique ==
    file = "whole" => \A i, j \in DOMAIN sot : sot[i].id = sot[j].id => i = j

(* Two confirmed facts that say the opposite of one resource on some day are  *)
(* reported together, and no group of rows is reported without two such facts  *)
(* in it; the group holds every row about the attribute, also those that       *)
(* contradict nothing.                                                         *)
ContradictionsFound ==
    LET found == {p.ids : p \in {q \in CheckFormal(rows) : q.rule = "contradiction"}}
        opposite(a, b) == /\ Crisp(a) /\ Crisp(b) /\ HasURL(a) /\ HasURL(b)
                          /\ CanonicalURL(a) = CanonicalURL(b)
                          /\ a.attr = b.attr /\ a.neg # b.neg
                          /\ \E day \in Days : ActiveAt(a, day) /\ ActiveAt(b, day)
    IN /\ \A a, b \in rows : opposite(a, b) => \E ids \in found : {a.id, b.id} \subseteq ids
       /\ \A ids \in found : \E a, b \in rows : {a.id, b.id} \subseteq ids /\ opposite(a, b)

(* A claim with two fresh first-hand sources on each side stays a hypothesis; *)
(* a verdict never rests on fewer than two sources, of whatever kind.         *)
FirstHand(ss) ==
    Cardinality({ss[i].id : i \in {j \in DOMAIN ss : ~ss[j].stale /\ ss[j].kind \in {"runtime", "config"}}}) >= 2
TiesStayOpen ==
    LET r == Adjudicate(claim)
    IN /\ FirstHand(claim.yes) /\ FirstHand(claim.no) => r.conf = "hypothesis"
       /\ r.winner = "yes" => Independent(claim.yes) >= 2
       /\ r.winner = "no"  => Independent(claim.no) >= 2

(* The audits report a clash of facts where there is one and only there, and *)
(* take no side on fewer than two sources or in a tie of first-hand ones.    *)
AuditsDecide == ContradictionsFound /\ TiesStayOpen
=============================================================================

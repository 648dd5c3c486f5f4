---------------------------- MODULE NetworkExport ----------------------------
(***************************************************************************)
(* bin/network derives from the letters and commits of the graph who is in *)
(* touch with one person; what it accepts becomes a manifest, from which   *)
(* bin/onlyoffice/import-network creates contacts in the CRM, and          *)
(* completes those it finds there (--backfill, --companies).               *)
(*                                                                         *)
(* Persons are numbers in the order of their addresses, NoOne an empty     *)
(* one; so are companies, in the order of their names.  Weights are counted *)
(* in quarters.  An about is "none", "summary" or "hand" (by hand); a last  *)
(* name is "given", "none" (the CRM may return it as null) or "<nil>".      *)
(***************************************************************************)
EXTENDS Integers, FiniteSets, Sequences, SequencesExt, FiniteSetsExt, Ranking

CONSTANTS
    Target,        \* --person
    KindOf,        \* ClassifySender: [persons -> "person", "company", "service"]
    OneWord,       \* persons whose name is one word
    CompanyOf,     \* --companies by domain: [persons -> a company, or NoCompany]
    Graphs,        \* [letters, commits] the graph may hold
    NetCommands,   \* [project, since, until, limit, personOnly]; 0 or "" for none
    CrmCommands,   \* [write, backfill, companies, limit]
    Books,         \* what the CRM may hold before: sequences of contacts
    HandMade,      \* persons somebody may make a contact of
    HandNames,     \* the last names somebody gives
    MaxCrmRuns, MaxCrmFaults, MaxHandEdits

NoOne == 0
NoCompany == 0

LastNames == {"given", "none", "<nil>"}
ContactsOf(C) ==
    [email : Nat, name : {"link", "hand", "gone"}, last : LastNames,
     about : {"none", "summary", "hand"}, tag : BOOLEAN, company : C]
Companies == {CompanyOf[q] : q \in DOMAIN CompanyOf} \cup {NoCompany}

\* Somebody has filled the CRM before, or a run that left nothing incomplete.
ASSUME NetAssumption ==
    /\ Target \in Nat /\ DOMAIN KindOf \subseteq Nat \ {NoOne} /\ IsFiniteSet(DOMAIN KindOf)
    /\ DOMAIN CompanyOf = DOMAIN KindOf /\ Companies \subseteq Nat
    /\ HandMade \subseteq DOMAIN KindOf /\ HandNames \subseteq {"given", "none"}
    /\ \A g \in Graphs : IsFiniteSet(g.letters)
    /\ \A c \in CrmCommands : c.limit \in Nat /\ {c.write, c.backfill, c.companies} \subseteq BOOLEAN
    /\ \A b \in Books :
          /\ b \in Seq(ContactsOf(Companies))
          /\ \A k \in DOMAIN b : b[k].name = "link" => b[k].email # NoOne /\ b[k].tag
          /\ \A i, j \in DOMAIN b : b[i].email = b[j].email /\ b[i].email # NoOne => i = j

VARIABLES
    made,        \* [graph, cmd]: what the manifest was made from
    planned,     \* the persons of the manifest
    book,        \* contacts by number, "gone" if deleted
    companyBook, \* companies of the CRM
    ccmd, npc,   \* the command, and the call that comes next
    emailIndex,  \* email -> contact and contacts with the tag, as read
    persons,     \* persons the step still has to do
    asRead, contactID,    \* a contact as it was read, and its number
    created, anyFailed,
    typed,       \* contact -> the last name somebody gave it
    crossed,     \* contacts edited while the tool created or updated them
    cameBetween, \* contacts made by hand while the tool was to create the same
    unclean,     \* deaths, creations without an answer, failed deletions
    imported,    \* a run of this command over this manifest has ended well
    rewrote,     \* what such a run has changed again
    crmRuns, crmFaults, edits

manifestVars == <<made, planned, ccmd>>
handVars == <<typed, crossed, cameBetween, edits>>
contactVars == <<emailIndex, asRead, contactID>>
runVars == <<contactVars, persons, created, anyFailed>>
outside == <<manifestVars, handVars, crmRuns>>
netVars == <<outside, runVars, book, companyBook, npc, unclean, imported, rewrote, crmFaults>>

-----------------------------------------------------------------------------
(* BuildLinks.  A letter is [id, day, from, to, cc, bcc, parent], a commit   *)
(* [repo, day, who]; day 0 is a missing date.                                *)

inPeriod(day, c) == day = 0 \/ ((c.since = 0 \/ day >= c.since) /\ (c.until = 0 \/ day <= c.until))

recipientRole(m, q) ==
    CASE q \in m.to -> 4
      [] q \in m.cc \ m.to -> 2
      [] q \in m.bcc \ (m.to \cup m.cc) -> 1
      [] OTHER -> 0

\* Letters from the target to q or back; a copy both of them got.
Direct(L, q) ==
    {m \in L : \/ m.from = Target /\ recipientRole(m, q) > 0
               \/ m.from = q /\ recipientRole(m, Target) > 0}
Shared(L, q) ==
    {m \in L : /\ m.from \notin {NoOne, Target, q}
               /\ recipientRole(m, Target) > 0 /\ recipientRole(m, q) > 0}

\* The sender of the parent is known whatever its date.
Replies(L, all, q) ==
    {m \in L : \E p \in all : m.parent = p.id /\ {m.from, p.from} = {Target, q}}

contactWeight(m, q) == recipientRole(m, IF m.from = Target THEN q ELSE Target)
Weight(direct, shared, replies, q) ==
    MapThenSumSet(LAMBDA m : contactWeight(m, q), direct)
      + Cardinality(shared) + 2 * Cardinality(replies)

Projects(C, q) ==
    {p \in {c.repo : c \in C} : \A w \in {Target, q} : \E c \in C : c.repo = p /\ c.who = w}

\* Mutant: a letter is enough.
verdictOfOne(msgs, replies, projects) ==
    IF msgs >= 1 \/ replies >= 1 \/ projects # {} THEN "accept" ELSE "weaken"

verdict(msgs, replies, projects) ==
    IF msgs >= 2 \/ replies >= 1 \/ projects # {} THEN "accept" ELSE "weaken"

LinkTo(g, c, q) ==
    LET L == {m \in g.letters : inPeriod(m.day, c)}
        direct == Direct(L, q)
        shared == Shared(L, q)
        replies == Replies(L, g.letters, q)
        projects == Projects({k \in g.commits : inPeriod(k.day, c)}, q)
    IN [person |-> q, kind |-> KindOf[q], projects |-> projects,
        seen |-> direct \cup shared \cup replies # {} \/ projects # {},
        weight |-> Weight(direct, shared, replies, q),
        verdict |-> verdict(Cardinality(direct), Cardinality(replies), projects)]

BuildLinks(g, c) ==
    LET all == {LinkTo(g, c, q) : q \in DOMAIN KindOf \ {Target}}
    IN {l \in all : l.seen /\ (c.project # "" => c.project \in l.projects)}
stronger(a, b) == a.weight > b.weight \/ (a.weight = b.weight /\ a.person < b.person)

\* The limit comes before services and weak links are left out.
Exported(g, c) ==
    LET links == BuildLinks(g, c)
        within(l) == c.limit > 0 => Cardinality({o \in links : stronger(o, l)}) < c.limit
        exported(l) == /\ l.verdict = "accept" /\ l.kind # "service"
                       /\ c.personOnly => l.kind = "person"
    IN {l.person : l \in {k \in links : within(k) /\ exported(k)}}
Exports == [graph : Graphs, cmd : NetCommands]
Manifests == {[from |-> e, links |-> Exported(e.graph, e.cmd)] : e \in Exports}

Free == npc = "idle"

MakeManifest ==
    /\ Free /\ \E m \in Manifests : made' = m.from /\ planned' = m.links
    /\ imported' = FALSE
    /\ UNCHANGED <<ccmd, book, companyBook, npc, runVars, handVars, unclean, rewrote, crmRuns,
                   crmFaults>>

-----------------------------------------------------------------------------
(* The CRM.  A call is answered, refused, or takes effect without an answer. *)

Call(r) ==
    /\ r \in {"ok", "refused", "lost"}
    /\ r # "ok" => crmFaults < MaxCrmFaults
    /\ crmFaults' = IF r = "ok" THEN crmFaults ELSE crmFaults + 1
Takes(r) == r # "refused"
Looks(r) == r # "lost" /\ Call(r)
Writes(r) == Call(r) /\ rewrote' = IF imported /\ Takes(r) THEN rewrote + 1 ELSE rewrote
Mishap(if) == unclean' = IF if THEN unclean + 1 ELSE unclean
Fails(if) == anyFailed' = (anyFailed \/ if)

Holders(e) == {k \in DOMAIN book : book[k].email = e}
BuildContactEmailIndex ==
    [e \in {book[k].email : k \in DOMAIN book} \ {NoOne} |-> CHOOSE k \in Holders(e) : TRUE]
contactIDsByTag == {k \in DOMAIN book : book[k].tag}

\* UpdatePerson sends the names that were read; no about or no company leaves
\* what is there.
UpdatePerson(k, last, about, company) ==
    [book EXCEPT ![k] = [email |-> book[k].email, name |-> asRead.name, last |-> last,
                         about |-> IF about # "none" THEN about ELSE book[k].about,
                         tag |-> book[k].tag,
                         company |-> IF company # NoCompany THEN company ELSE book[k].company]]

\* RunCompanies prints a name that is null.
Printed(last) == IF last = "none" THEN {"none", "<nil>"} ELSE {last}

\* Persons of the plan, which is ordered by address.
InOrder(S) == Ranked(S, LAMBDA p, q : p < q)

\* Role boxes of a domain with a company, company by company.
CompanyBoxes == {q \in planned : KindOf[q] = "company" /\ CompanyOf[q] # NoCompany}
GroupCompanyLinks(S) ==
    Ranked(S, LAMBDA p, q : CompanyOf[p] < CompanyOf[q] \/ (CompanyOf[p] = CompanyOf[q] /\ p < q))

RunOver(ok) ==
    /\ npc' = "idle" /\ persons' = <<>>
    /\ imported' = (imported \/ (ok /\ ccmd.write /\ ccmd.limit = 0))
GoTo(step, left) == npc' = step /\ persons' = left /\ UNCHANGED imported

\* What comes after a step: the first that failed ends the run.
AfterBackfill(ok) ==
    IF ok /\ ccmd.companies /\ CompanyBoxes # {}
    THEN GoTo("companies", <<>>) ELSE RunOver(ok)
AfterRun(ok) == IF ok /\ ccmd.backfill THEN GoTo("backfill", <<>>) ELSE AfterBackfill(ok)

\* A manifest without links ends before any call.
StartImport ==
    /\ Free /\ crmRuns < MaxCrmRuns /\ planned # {}
    /\ \E c \in CrmCommands : ccmd' = c /\ imported' = (imported /\ c = ccmd)
    /\ npc' = "run" /\ anyFailed' = FALSE /\ created' = 0 /\ crmRuns' = crmRuns + 1
    /\ UNCHANGED <<contactVars, made, planned, book, companyBook, persons, handVars, unclean,
                   rewrote, crmFaults>>

-----------------------------------------------------------------------------
(* Run: contacts that are missing are created.                               *)

IndexContacts(r) ==
    LET fresh == planned \ DOMAIN BuildContactEmailIndex
    IN /\ npc = "run" /\ Looks(r)
       /\ CASE r # "ok" -> RunOver(FALSE)
            [] r = "ok" /\ (~ccmd.write \/ fresh = {}) -> AfterRun(TRUE)
            [] OTHER -> \E left \in InOrder(fresh) : GoTo("tag", left)
       /\ UNCHANGED <<contactVars, outside, book, companyBook, created, anyFailed, unclean,
                      rewrote>>

\* Creating a tag that exists changes nothing.
CreateContactTag(r) ==
    /\ npc \in {"tag", "backfill tag"} /\ Call(r)
    /\ IF r = "ok" THEN GoTo(IF npc = "tag" THEN "create" ELSE "complete", persons)
       ELSE RunOver(FALSE)
    /\ UNCHANGED <<contactVars, outside, book, companyBook, created, anyFailed, unclean, rewrote>>

\* Contacts beyond the limit stay pending.
RunEnds ==
    /\ npc = "create" /\ (persons = <<>> \/ (ccmd.limit > 0 /\ created >= ccmd.limit))
    /\ AfterRun(~anyFailed)
    /\ UNCHANGED <<contactVars, outside, book, companyBook, created, anyFailed, unclean, rewrote,
                   crmFaults>>

Contact(name, last, about) ==
    [email |-> NoOne, name |-> name, last |-> last, about |-> about, tag |-> FALSE, company |-> NoCompany]
NewContact(q) == Contact("link", IF q \in OneWord THEN "none" ELSE "given", "summary")
Deleted == Contact("gone", "none", "none")
CreatePerson(r) ==
    /\ npc = "create" /\ persons # <<>> /\ (ccmd.limit > 0 => created < ccmd.limit) /\ Writes(r)
    /\ contactID' = Len(book) + 1
    /\ book' = IF Takes(r) THEN Append(book, NewContact(Head(persons))) ELSE book
    /\ IF r = "ok" THEN GoTo("email", persons) ELSE GoTo("create", Tail(persons))
    /\ Fails(r # "ok") /\ Mishap(r = "lost")
    /\ UNCHANGED <<outside, companyBook, emailIndex, asRead, created>>

AddContactInfo(r) ==
    /\ npc = "email" /\ Writes(r)
    /\ book' = IF Takes(r) THEN [book EXCEPT ![contactID].email = Head(persons)] ELSE book
    /\ GoTo(IF r = "ok" THEN "label" ELSE "rollback", persons)
    /\ UNCHANGED <<contactVars, outside, companyBook, created, anyFailed, unclean>>

\* Mutant: a contact that only lacks its tag stays.
AddContactTagNoRollback(r) ==
    /\ npc = "label" /\ Writes(r)
    /\ book' = IF Takes(r) THEN [book EXCEPT ![contactID].tag = TRUE] ELSE book
    /\ GoTo("create", Tail(persons)) /\ created' = created + 1
    /\ UNCHANGED <<contactVars, outside, companyBook, anyFailed, unclean>>

AddContactTag(r) ==
    /\ npc = "label" /\ Writes(r)
    /\ book' = IF Takes(r) THEN [book EXCEPT ![contactID].tag = TRUE] ELSE book
    /\ IF r = "ok" THEN GoTo("create", Tail(persons)) /\ created' = created + 1
       ELSE GoTo("rollback", persons) /\ UNCHANGED created
    /\ UNCHANGED <<contactVars, outside, companyBook, anyFailed, unclean>>

\* The answer to the deletion is not looked at.
DeleteContact(r) ==
    /\ npc = "rollback" /\ Writes(r)
    /\ book' = IF Takes(r) THEN [book EXCEPT ![contactID] = Deleted] ELSE book
    /\ GoTo("create", Tail(persons)) /\ Fails(TRUE) /\ Mishap(~Takes(r))
    /\ UNCHANGED <<contactVars, outside, companyBook, created>>

-----------------------------------------------------------------------------
(* RunBackfill: tag and about of the contacts of the plan, where they lack.  *)

\* A dry run takes a tag that cannot be listed for one that nobody has.
IndexForBackfill(r) ==
    /\ npc = "backfill" /\ Looks(r)
    /\ \E tags \in {contactIDsByTag} \cup (IF ccmd.write THEN {} ELSE {{}}) :
          emailIndex' = [of |-> BuildContactEmailIndex, tagged |-> tags]
    /\ IF r = "ok"
       THEN \E left \in InOrder(planned) : GoTo(IF ccmd.write THEN "backfill tag" ELSE "complete", left)
       ELSE RunOver(FALSE)
    /\ UNCHANGED <<outside, book, companyBook, asRead, contactID, created, anyFailed, unclean,
                   rewrote>>

\* The next person of a step, or what comes after it.
NextPerson(step, ok) == IF Len(persons) > 1 THEN GoTo(step, Tail(persons)) ELSE AfterBackfill(ok)
NextLink(ok) ==
    IF Len(persons) = 1 THEN RunOver(ok)
    ELSE GoTo(IF CompanyOf[persons[2]] = CompanyOf[Head(persons)] THEN "member" ELSE "company",
              Tail(persons))

GetForBackfill(r) ==
    LET q == Head(persons)
        k == emailIndex.of[q]
        changes == (IF k \in emailIndex.tagged THEN {} ELSE {"tag"})
                     \cup (IF book[k].about = "none" THEN {"about"} ELSE {})
    IN /\ npc = "complete" /\ Looks(r)
       /\ IF q \notin DOMAIN emailIndex.of
          THEN /\ r = "ok" /\ NextPerson("complete", ~anyFailed)
               /\ UNCHANGED <<asRead, contactID, anyFailed>>
          ELSE /\ contactID' = k /\ asRead' = book[k] /\ Fails(r # "ok")
               /\ CASE r # "ok" \/ changes = {} \/ ~ccmd.write ->
                         NextPerson("complete", ~anyFailed')
                    [] r = "ok" /\ ccmd.write /\ "tag" \in changes -> GoTo("add tag", persons)
                    [] OTHER -> GoTo("add about", persons)
       /\ UNCHANGED <<outside, book, companyBook, emailIndex, created, unclean, rewrote>>

\* A tag that is refused does not keep the about from being written.
BackfillTag(r) ==
    /\ npc = "add tag" /\ Writes(r) /\ Fails(r # "ok")
    /\ book' = IF Takes(r) THEN [book EXCEPT ![contactID].tag = TRUE] ELSE book
    /\ IF asRead.about = "none" THEN GoTo("add about", persons) ELSE NextPerson("complete", ~anyFailed')
    /\ UNCHANGED <<contactVars, outside, companyBook, created, unclean>>

BackfillAbout(r) ==
    /\ npc = "add about" /\ Writes(r) /\ Fails(r # "ok")
    /\ book' = IF Takes(r) THEN UpdatePerson(contactID, asRead.last, "summary", NoCompany) ELSE book
    /\ NextPerson("complete", ~anyFailed')
    /\ UNCHANGED <<contactVars, outside, companyBook, created, unclean>>

-----------------------------------------------------------------------------
(* RunCompanies: role boxes are linked to the company of their domain.       *)

IndexForCompanies(r) ==
    /\ npc = "companies" /\ Looks(r)
    /\ emailIndex' = [of |-> BuildContactEmailIndex, tagged |-> {}]
    /\ IF r = "ok" THEN \E left \in GroupCompanyLinks(CompanyBoxes) : GoTo("company", left)
       ELSE RunOver(FALSE)
    /\ UNCHANGED <<outside, book, companyBook, asRead, contactID, created, anyFailed, unclean,
                   rewrote>>

\* FindCompany or, if there is none, CreateCompany; failing, its persons are left.
FindCompany(r) ==
    LET c == CompanyOf[Head(persons)]
        others == {q \in ToSet(persons) : CompanyOf[q] # c}
    IN /\ npc = "company"
       /\ IF c \in companyBook \/ ~ccmd.write
          THEN Looks(r) /\ UNCHANGED <<companyBook, rewrote>>
          ELSE Writes(r) /\ companyBook' = IF Takes(r) THEN companyBook \cup {c} ELSE companyBook
       /\ Fails(r # "ok")
       /\ CASE r = "ok" -> GoTo("member", persons)
            [] r # "ok" /\ others = {} -> RunOver(FALSE)
            [] OTHER -> \E left \in GroupCompanyLinks(others) : GoTo("company", left)
       /\ UNCHANGED <<contactVars, outside, book, created, unclean>>

GetForCompany(r) ==
    LET q == Head(persons) IN
    /\ npc = "member" /\ Looks(r)
    /\ IF q \notin DOMAIN emailIndex.of
       THEN r = "ok" /\ NextLink(~anyFailed) /\ UNCHANGED <<asRead, contactID, anyFailed>>
       ELSE LET k == emailIndex.of[q] IN
            /\ contactID' = k /\ asRead' = book[k] /\ Fails(r # "ok")
            /\ IF r # "ok" \/ ~ccmd.write \/ book[k].company = CompanyOf[q]
               THEN NextLink(~anyFailed') ELSE GoTo("link", persons)
    /\ UNCHANGED <<outside, book, companyBook, emailIndex, created, unclean, rewrote>>

LinkCompany(r) ==
    /\ npc = "link" /\ Writes(r) /\ Fails(r # "ok")
    /\ \E last \in Printed(asRead.last) :
          book' = IF Takes(r) THEN UpdatePerson(contactID, last, "none", CompanyOf[Head(persons)]) ELSE book
    /\ NextLink(~anyFailed')
    /\ UNCHANGED <<contactVars, outside, companyBook, created, unclean>>

-----------------------------------------------------------------------------
(* Somebody works in the CRM, and the tool may die.                          *)

Creating == npc \in {"tag", "create", "email", "label", "rollback"}
BeingCreated(k) == npc \in {"email", "label", "rollback"} /\ k = contactID

\* A contact is edited, or made for a person nobody has a contact of yet.
HandEdit ==
    /\ edits < MaxHandEdits
    /\ \E k \in DOMAIN book, last \in HandNames :
          /\ book[k].name # "gone"
          /\ book' = [book EXCEPT ![k] = [@ EXCEPT !.name = "hand", !.last = last, !.about = "hand"]]
          /\ typed' = [j \in DOMAIN typed \cup {k} |-> IF j = k THEN last ELSE typed[j]]
          /\ crossed' = IF BeingCreated(k) \/ (npc \in {"add tag", "add about", "link"} /\ k = contactID)
                        THEN crossed \cup {k} ELSE crossed
    /\ edits' = edits + 1
    /\ UNCHANGED <<manifestVars, companyBook, npc, runVars, cameBetween, unclean, rewrote, imported,
                   crmRuns, crmFaults>>

HandAdd ==
    LET k == Len(book) + 1 IN
    /\ edits < MaxHandEdits
    /\ \E q \in HandMade \ DOMAIN BuildContactEmailIndex, last \in HandNames :
          /\ book' = Append(book, [Contact("hand", last, "hand") EXCEPT !.email = q])
          /\ typed' = [j \in DOMAIN typed \cup {k} |-> IF j = k THEN last ELSE typed[j]]
          /\ cameBetween' = IF Creating /\ q \in ToSet(persons)
                            THEN cameBetween \cup {k} ELSE cameBetween
    /\ edits' = edits + 1
    /\ UNCHANGED <<manifestVars, companyBook, npc, runVars, crossed, unclean, rewrote, imported,
                   crmRuns, crmFaults>>

ImportKilled ==
    /\ npc # "idle" /\ crmFaults < MaxCrmFaults
    /\ npc' = "idle" /\ persons' = <<>> /\ Mishap(BeingCreated(contactID))
    /\ crmFaults' = crmFaults + 1
    /\ UNCHANGED <<contactVars, outside, book, companyBook, created, anyFailed, rewrote,
                   imported>>

NetInit ==
    /\ \E m \in Manifests : made = m.from /\ planned = m.links
    /\ book \in Books /\ companyBook = {} /\ ccmd \in CrmCommands /\ npc = "idle"
    /\ emailIndex = [of |-> <<>>, tagged |-> {}] /\ persons = <<>>
    /\ asRead = Deleted /\ contactID = 1
    /\ created = 0 /\ anyFailed = FALSE /\ unclean = 0
    /\ typed = <<>> /\ crossed = {} /\ cameBetween = {}
    /\ imported = FALSE /\ rewrote = 0 /\ crmRuns = 0 /\ crmFaults = 0 /\ edits = 0

CrmCall(r) ==
    \/ IndexContacts(r) \/ CreateContactTag(r)
    \/ CreatePerson(r) \/ AddContactInfo(r) \/ AddContactTag(r) \/ DeleteContact(r)
    \/ IndexForBackfill(r) \/ GetForBackfill(r) \/ BackfillTag(r) \/ BackfillAbout(r)
    \/ IndexForCompanies(r) \/ FindCompany(r) \/ GetForCompany(r) \/ LinkCompany(r)

NetNext ==
    \/ MakeManifest \/ StartImport \/ RunEnds
    \/ \E r \in {"ok", "refused", "lost"} : CrmCall(r)
    \/ HandEdit \/ HandAdd \/ ImportKilled

-----------------------------------------------------------------------------
(* Who is planned is no service and has exchanged two letters with the       *)
(* target, answered one or been answered, or works on a project with it.     *)
Earned(g, c, q) ==
    LET L == {m \in g.letters : inPeriod(m.day, c)}
        C == {k \in g.commits : inPeriod(k.day, c)}
        between(m) == \E a, b \in {q, Target} : a # b /\ m.from = a /\ b \in m.to \cup m.cc \cup m.bcc
        answers(m, p) == m.parent = p.id /\ m.from # p.from /\ {m.from, p.from} \subseteq {q, Target}
    IN /\ KindOf[q] # "service"
       /\ \/ \E m, n \in L : m # n /\ between(m) /\ between(n)
          \/ \E m \in L, p \in g.letters : answers(m, p)
          \/ \E a, b \in C : a.repo = b.repo /\ a.who = q /\ b.who = Target
EarnedBy == [e \in Exports |-> {q \in DOMAIN KindOf : Earned(e.graph, e.cmd, q)}]
PlanIsEarned == planned \subseteq EarnedBy[made]

(* No run, however it ended, leaves two contacts with one address, but where  *)
(* somebody made one after the tool had looked; and it leaves one without its *)
(* address or its tag only after a death, a creation that was not answered or *)
(* a deletion that failed ("created" means created completely).               *)
OnePerAddress ==
    \A i, j \in DOMAIN book \ cameBetween :
        book[i].email = book[j].email /\ book[i].email # NoOne => i = j
Incomplete(k) == book[k].name = "link" /\ (book[k].email = NoOne \/ ~book[k].tag)
RolledBack == Cardinality({k \in DOMAIN book : Incomplete(k) /\ ~BeingCreated(k)}) <= unclean

(* What somebody wrote stays, unless it was written while the tool was        *)
(* creating the contact or between reading and updating it; but a last name   *)
(* left empty may become "<nil>" where a company is linked.                   *)
HandsKept ==
    \A k \in DOMAIN typed \ crossed :
        /\ book[k].name = "hand" /\ book[k].about = "hand"
        /\ \/ book[k].last = typed[k]
           \/ typed[k] = "none" /\ book[k].last = "<nil>" /\ book[k].company # NoCompany

(* The CRM has whole contacts of people the target really deals with, once   *)
(* each, keeps what was written by hand, and a repeated import writes nothing. *)
CrmIsTrue == PlanIsEarned /\ OnePerAddress /\ RolledBack /\ HandsKept /\ rewrote = 0
=============================================================================

------------------------------ MODULE MailSync ------------------------------
(***************************************************************************)
(* The mail download of internal/mailsync: Run lists the ids of every      *)
(* source (OnlyOffice, Gmail, the mailboxes of Microsoft 365, the folders  *)
(* of an IMAP account), a pool of workers fetches message and attachments  *)
(* of each id into a directory of its own, and a source that keeps a delta *)
(* link (Microsoft 365) persists it when nothing failed.  Runs of several  *)
(* processes may share the directory.                                      *)
(*                                                                         *)
(* Messages of a folder are numbered in the order they arrived, so a delta *)
(* link is the number of the last message it covers.  A request fails when *)
(* its token, its connection or its answer does, for good.                 *)
(***************************************************************************)
EXTENDS Integers, FiniteSets, Sequences

CONSTANTS
    Runs,        \* processes that run the sync
    Kind,        \* Kind[s]: the service source s reads from
    Folders,     \* Folders[s]: the folders of source s, in order
    Confs,       \* what may be set up: sources in order, processes, their flags,
                 \* and a bound on the messages of a folder
    Body, Atts, Notes,  \* the files of a message: itself, attachments, the
                        \* markdown of calendar attachments
    NoteOf,      \* NoteOf[n]: the attachment whose markdown is n
    TextAtts,    \* attachments of a text type
    InlineAtts,  \* attachments shown within the message
    Workers,     \* size of the worker pool
    PageSize,    \* ids on one page of a delta query
    OOPage,      \* ids OnlyOffice returns at most
    MaxMail,     \* the largest of those bounds
    MaxFaults,   \* bound on failing requests
    MaxWriteFaults, \* bound on failing writes
    MaxStops   \* bound on runs killed or cancelled

SourceSet == DOMAIN Kind
Delta == {s \in SourceSet : Kind[s] = "m365"}
RawMailers == {s \in SourceSet : Kind[s] \in {"gmail", "imap"}}
FoldersOf(s) == {Folders[s][i] : i \in DOMAIN Folders[s]}
AllFolders == UNION {FoldersOf(s) : s \in SourceSet}
SourceOf(f) == CHOOSE s \in SourceSet : f \in FoldersOf(s)
Msgs == AllFolders \X (1..MaxMail)
Parts == {Body} \cup Atts \cup Notes
Kinds == {"onlyoffice", "gmail", "m365", "imap"}
Flags == [raw : BOOLEAN, dry : BOOLEAN, force : BOOLEAN, limit : Nat, offset : Nat]

ASSUME MailAssumption ==
    /\ IsFiniteSet(Runs) /\ IsFiniteSet(Atts)
    /\ Kind \in [SourceSet -> Kinds]
    /\ \A s \in SourceSet : Folders[s] \in Seq(FoldersOf(s)) /\ Folders[s] # <<>>
    /\ \A s \in SourceSet : Kind[s] # "m365" => Len(Folders[s]) = 1
    /\ \A s, t \in SourceSet : s # t => FoldersOf(s) \cap FoldersOf(t) = {}
    /\ Confs \subseteq [sources : Seq(SourceSet) \ {<<>>}, runs : SUBSET Runs,
                         modes : (SUBSET Flags) \ {{}}, most : 0..MaxMail]
    /\ TextAtts \cup InlineAtts \subseteq Atts
    /\ Body \notin Atts \cup Notes /\ Atts \cap Notes = {} /\ NoteOf \in [Notes -> Atts]
    /\ {Workers, PageSize, OOPage} \subseteq Nat \ {0}
    /\ {MaxMail, MaxFaults, MaxWriteFaults, MaxStops} \subseteq Nat

VARIABLES
    conf,     \* the setup
    mail,     \* per folder: messages that arrived
    file,     \* per message and part: "none", "torn" or "ok" on disk
    state,    \* per source: the delta file is "absent", "torn" or "ok"
    link,     \* per folder: the delta link in that file
    pc,       \* per run: its stage
    mode,     \* per run: its flags
    at,       \* per run: source and folder to be listed next
    ids,      \* per run: ids listed so far for the source
    pending,  \* per run and folder: the delta link to be committed
    job,      \* per run and message: what its job is about to do
    left,     \* per run and message: attachments not yet looked at
    att,      \* per run and message: the attachment being written
    owed,     \* per run: sources still to be committed
    faults, writeFaults, stops   \* what the bounds count

disk == <<file, state, link>>
bounds == <<faults, writeFaults, stops>>
listing == <<conf, mode, at, ids, pending>>
work == <<job, left, att>>
vars == <<mail, disk, pc, listing, work, owed, bounds>>

NoJobs == [m \in Msgs |-> "none"]
Running == {"get", "write", "atts", "attWrite", "note"}
Active(r) == {m \in Msgs : job[r][m] \in Running}
Sources == conf.sources
SetJob(r, m, j) == job' = [job EXCEPT ![r][m] = j]
Put(m, p, v) == file' = [file EXCEPT ![m][p] = v]
Exists(m, p) == file[m][p] # "none"

Init ==
    /\ conf \in Confs
    /\ mail = [f \in AllFolders |-> 0]
    /\ file = [m \in Msgs |-> [p \in Parts |-> "none"]]
    /\ state = [s \in SourceSet |-> "absent"] /\ link = [f \in AllFolders |-> 0]
    /\ pc = [r \in Runs |-> "idle"] /\ mode = [r \in Runs |-> CHOOSE md \in conf.modes : TRUE]
    /\ at = [r \in Runs |-> <<1, 1>>] /\ ids = [r \in Runs |-> <<>>]
    /\ pending = [r \in Runs |-> link]
    /\ job = [r \in Runs |-> NoJobs]
    /\ left = [r \in Runs |-> [m \in Msgs |-> {}]]
    /\ att = [r \in Runs |-> [m \in Msgs |-> Body]]
    /\ owed = [r \in Runs |-> {}]
    /\ faults = 0 /\ writeFaults = 0 /\ stops = 0

Arrive(f) ==
    /\ mail[f] < conf.most /\ \E i \in DOMAIN Sources : f \in FoldersOf(Sources[i])
    /\ mail' = [mail EXCEPT ![f] = @ + 1]
    /\ UNCHANGED <<disk, pc, listing, work, owed, bounds>>

Fault == faults < MaxFaults /\ faults' = faults + 1 /\ UNCHANGED <<writeFaults, stops>>
WriteFault ==
    /\ writeFaults < MaxWriteFaults /\ writeFaults' = writeFaults + 1
    /\ UNCHANGED <<faults, stops>>

-----------------------------------------------------------------------------
(* Listing: one folder of one source after the other. *)

Configured(k) == \E i \in DOMAIN Sources : Kind[Sources[i]] = k

\* With an IMAP account the whole run is raw.
InEffect(md) == [md EXCEPT !.raw = @ \/ Configured("imap")]

Begin(r, md) ==
    /\ pc[r] = "idle" /\ r \in conf.runs
    /\ pc' = [pc EXCEPT ![r] = "list"] /\ mode' = [mode EXCEPT ![r] = InEffect(md)]
    /\ at' = [at EXCEPT ![r] = <<1, 1>>] /\ ids' = [ids EXCEPT ![r] = <<>>]
    /\ job' = [job EXCEPT ![r] = NoJobs]
    /\ UNCHANGED <<conf, mail, disk, pending, left, att, owed, bounds>>

\* OnlyOffice wants a login and every folder of an IMAP account a connection
\* before anything is listed; the tokens of the others are fetched when needed.
LoginOO == Configured("onlyoffice") /\ Fault
ConnectIMAP == Configured("imap") /\ Fault
BeginFails(r) ==
    /\ pc[r] = "idle" /\ r \in conf.runs
    /\ LoginOO \/ ConnectIMAP
    /\ UNCHANGED <<mail, disk, pc, listing, work, owed>>

\* What Offset and Limit leave of the ids of a source.
Window(md, S) ==
    LET last == IF md.limit > 0 THEN md.offset + md.limit ELSE Len(S)
    IN SubSeq(S, md.offset + 1, IF last < Len(S) THEN last ELSE Len(S))

Ask(md) == md.offset + md.limit
Pages(n) == (n + PageSize - 1) \div PageSize

\* The delta file is read once, before the first folder is asked for.
From(r, s, f) ==
    IF at[r][2] > 1 THEN pending[r][f]
    ELSE IF s \in Delta /\ state[s] = "ok" THEN link[f] ELSE 0
Unreadable(r, s) == s \in Delta /\ at[r][2] = 1 /\ state[s] = "torn"

\* A delta query stops at the limit; when the page it stops on is the last one
\* its link is kept, and it covers the rest of the page.
Cut(md, s, n) == s \in Delta /\ Ask(md) > 0 /\ n >= Ask(md)
Taken(md, s, n) == IF Cut(md, s, n) THEN Ask(md) ELSE n

NextLink(md, s, from, n) ==
    IF Cut(md, s, n) /\ Pages(Ask(md)) < Pages(n) THEN from ELSE from + n

\* The other services are asked for everything, each time.  OnlyOffice answers
\* with one page, the next one is never asked for; Gmail's pages are walked up to
\* the limit; a search of an IMAP folder knows no limit.
Newest(f, n) == [i \in 1..n |-> <<f, mail[f] + 1 - i>>]
Capped(n, limit) == IF limit > 0 /\ limit < n THEN limit ELSE n
OOIds(md, f) == Newest(f, Capped(mail[f], Capped(OOPage, Ask(md))))
GmailIds(md, f) == Newest(f, Capped(mail[f], Ask(md)))
ImapIds(f) == [i \in 1..mail[f] |-> <<f, i>>]
DeltaIds(md, s, f, from) == [i \in 1..Taken(md, s, mail[f] - from) |-> <<f, from + i>>]

IdsOf(md, s, f, from) ==
    CASE Kind[s] = "onlyoffice" -> OOIds(md, f)
      [] Kind[s] = "gmail" -> GmailIds(md, f)
      [] Kind[s] = "m365" -> DeltaIds(md, s, f, from)
      [] Kind[s] = "imap" -> ImapIds(f)

ListFolder(r) ==
    LET s == Sources[at[r][1]]
        f == Folders[s][at[r][2]]
        md == mode[r]
        from == From(r, s, f)
        n == mail[f] - from
        got == ids[r] \o IdsOf(md, s, f, from)
        lastFolder == at[r][2] = Len(Folders[s])
        last == lastFolder \/ (s \in Delta /\ Ask(md) > 0 /\ Len(got) >= Ask(md))
        jobs == {Window(md, got)[i] : i \in DOMAIN Window(md, got)}
    IN
    /\ pc[r] = "list" /\ ~Unreadable(r, s)
    \* Folders a limit leaves out keep the link they had.
    /\ pending' = [pending EXCEPT ![r] = [g \in AllFolders |->
          IF g = f /\ s \in Delta THEN NextLink(md, s, from, n)
          ELSE IF g \in FoldersOf(s) THEN From(r, s, g) ELSE @[g]]]
    /\ IF last
         THEN /\ ids' = [ids EXCEPT ![r] = <<>>]
              /\ job' = [job EXCEPT ![r] = [m \in Msgs |-> IF m \in jobs THEN "todo" ELSE @[m]]]
              /\ IF at[r][1] = Len(Sources)
                   THEN pc' = [pc EXCEPT ![r] = "work"] /\ UNCHANGED at
                   ELSE at' = [at EXCEPT ![r] = <<at[r][1] + 1, 1>>] /\ UNCHANGED pc
         ELSE /\ ids' = [ids EXCEPT ![r] = got]
              /\ at' = [at EXCEPT ![r] = <<at[r][1], at[r][2] + 1>>]
              /\ UNCHANGED <<pc, job>>
    /\ UNCHANGED <<conf, mail, disk, mode, left, att, owed, bounds>>

\* What a request needs: a token that was cached or can be had, a connection that
\* lives or can be made anew, and an answer that says so and parses.
GmailFails(s) == Kind[s] = "gmail" /\ Fault
M365Fails(s) == Kind[s] = "m365" /\ Fault
OOFails(s) == Kind[s] = "onlyoffice" /\ Fault
IMAPFails(s) == Kind[s] = "imap" /\ Fault
RequestFails(s) == GmailFails(s) \/ M365Fails(s) \/ OOFails(s) \/ IMAPFails(s)

\* A request that fails, or a delta file that does not parse, ends the run.
ListFails(r) ==
    /\ pc[r] = "list"
    /\ \/ Unreadable(r, Sources[at[r][1]]) /\ UNCHANGED bounds
       \/ RequestFails(Sources[at[r][1]])
    /\ pc' = [pc EXCEPT ![r] = "idle"] /\ job' = [job EXCEPT ![r] = NoJobs]
    /\ UNCHANGED <<mail, disk, listing, left, att, owed>>

-----------------------------------------------------------------------------
(* processOne.  WriteFile truncates, then fills: a kill or a failed write   *)
(* in between leaves a torn file.                                           *)

\* Mutant: without --force every message counts as downloaded.
PickSkipsNew(r, m) ==
    /\ pc[r] = "work" /\ job[r][m] = "todo" /\ Cardinality(Active(r)) < Workers
    /\ SetJob(r, m, IF mode[r].force THEN "get" ELSE "done")
    /\ UNCHANGED <<mail, disk, pc, listing, left, att, owed, bounds>>

Pick(r, m) ==
    LET md == mode[r]
        there == Exists(m, Body) /\ ~md.force
        raw == md.raw /\ SourceOf(m[1]) \notin RawMailers
    IN
    /\ pc[r] = "work" /\ job[r][m] = "todo" /\ Cardinality(Active(r)) < Workers
    /\ SetJob(r, m, IF md.dry \/ raw \/ there THEN "done" ELSE "get")
    /\ UNCHANGED <<mail, disk, pc, listing, left, att, owed, bounds>>

\* Retry gives up on a request after MaxAttempts (how many failed before is not
\* kept), and on a write at once.
Fails(r, m) == RequestFails(SourceOf(m[1])) /\ SetJob(r, m, "failed")
WriteFails(r, m) == WriteFault /\ SetJob(r, m, "failed")

\* The attachments a message names: Gmail's of a text type are taken for bodies,
\* Microsoft's inline ones are left out, raw mail carries its own.
AttsOfOO == Atts
AttsOfGmail == Atts \ TextAtts
AttsOfM365 == Atts \ InlineAtts
AttsOfIMAP == {}
AttsOf(s) ==
    CASE Kind[s] = "onlyoffice" -> AttsOfOO
      [] Kind[s] = "gmail" -> AttsOfGmail
      [] Kind[s] = "m365" -> AttsOfM365
      [] Kind[s] = "imap" -> AttsOfIMAP

Get(r, m) ==
    /\ job[r][m] = "get"
    /\ \/ Put(m, Body, "torn") /\ SetJob(r, m, "write") /\ UNCHANGED bounds
       \/ Fails(r, m) /\ UNCHANGED file
    /\ UNCHANGED <<mail, state, link, pc, listing, left, att, owed>>

WriteBody(r, m) ==
    /\ job[r][m] = "write"
    /\ \/ /\ Put(m, Body, "ok")
          /\ SetJob(r, m, IF mode[r].raw THEN "done" ELSE "atts")
          /\ left' = [left EXCEPT ![r][m] = IF mode[r].raw THEN {} ELSE AttsOf(SourceOf(m[1]))]
          /\ UNCHANGED bounds
       \/ WriteFails(r, m) /\ UNCHANGED <<file, left>>
    /\ UNCHANGED <<mail, state, link, pc, listing, att, owed>>

Download(r, m, a) ==
    /\ job[r][m] = "atts" /\ a \in left[r][m]
    /\ left' = [left EXCEPT ![r][m] = @ \ {a}]
    /\ \/ /\ Exists(m, a) /\ ~mode[r].force
          /\ UNCHANGED <<file, job, att, bounds>>
       \/ /\ ~Exists(m, a) \/ mode[r].force
          /\ \/ /\ Put(m, a, "torn") /\ SetJob(r, m, "attWrite")
                /\ att' = [att EXCEPT ![r][m] = a] /\ UNCHANGED bounds
             \/ Fails(r, m) /\ UNCHANGED <<file, att>>
    /\ UNCHANGED <<mail, state, link, pc, listing, owed>>

WriteAtt(r, m) ==
    /\ job[r][m] = "attWrite"
    /\ \/ /\ Put(m, att[r][m], "ok") /\ UNCHANGED bounds
          /\ SetJob(r, m, IF \E n \in Notes : NoteOf[n] = att[r][m] THEN "note" ELSE "atts")
       \/ WriteFails(r, m) /\ UNCHANGED file
    /\ UNCHANGED <<mail, state, link, pc, listing, left, att, owed>>

\* A calendar attachment gets its markdown only when it was downloaded now.
WriteNote(r, m, n) ==
    /\ job[r][m] = "note" /\ NoteOf[n] = att[r][m]
    /\ \/ Put(m, n, "ok") /\ SetJob(r, m, "atts") /\ UNCHANGED bounds
       \/ Put(m, n, "torn") /\ WriteFails(r, m)
    /\ UNCHANGED <<mail, state, link, pc, listing, left, att, owed>>

MessageDone(r, m) ==
    /\ job[r][m] = "atts" /\ left[r][m] = {}
    /\ SetJob(r, m, "done")
    /\ UNCHANGED <<mail, disk, pc, listing, left, att, owed, bounds>>

-----------------------------------------------------------------------------
(* The end of a run. *)

Failed(r) == \E m \in Msgs : job[r][m] = "failed"

\* Mutant: failures are printed but do not keep the links from being saved.
JoinCommitsAll(r) ==
    /\ pc[r] = "work" /\ \A m \in Msgs : job[r][m] \in {"none", "done", "failed"}
    /\ pc' = [pc EXCEPT ![r] = "commit"]
    /\ owed' = [owed EXCEPT ![r] = {s \in Delta : \E m \in Msgs : SourceOf(m[1]) = s /\ job[r][m] # "none"}]
    /\ UNCHANGED <<mail, disk, listing, work, bounds>>

\* Links are saved when nothing failed, one source after the other, of the
\* sources that had something to fetch.
Join(r) ==
    /\ pc[r] = "work" /\ \A m \in Msgs : job[r][m] \in {"none", "done", "failed"}
    /\ pc' = [pc EXCEPT ![r] = "commit"]
    /\ owed' = [owed EXCEPT ![r] = IF Failed(r) THEN {} ELSE
          {s \in Delta : \E m \in Msgs : SourceOf(m[1]) = s /\ job[r][m] = "done"}]
    /\ UNCHANGED <<mail, disk, listing, work, bounds>>

Index(s) == CHOOSE i \in DOMAIN Sources : Sources[i] = s
NextOwed(r) == CHOOSE s \in owed[r] : \A t \in owed[r] : Index(s) <= Index(t)

CommitBegin(r) ==
    /\ pc[r] = "commit" /\ owed[r] # {}
    /\ state' = [state EXCEPT ![NextOwed(r)] = "torn"]
    /\ pc' = [pc EXCEPT ![r] = "saving"]
    /\ UNCHANGED <<mail, file, link, listing, work, owed, bounds>>

\* A write that fails is one more line of the failures that are printed.
CommitEnd(r) ==
    LET s == NextOwed(r) IN
    /\ pc[r] = "saving"
    /\ pc' = [pc EXCEPT ![r] = "commit"] /\ owed' = [owed EXCEPT ![r] = @ \ {s}]
    /\ \/ /\ state' = [state EXCEPT ![s] = "ok"]
          /\ link' = [f \in AllFolders |-> IF f \in FoldersOf(s) THEN pending[r][f] ELSE link[f]]
          /\ UNCHANGED bounds
       \/ WriteFault /\ UNCHANGED <<state, link>>
    /\ UNCHANGED <<mail, file, listing, work>>

End(r) ==
    /\ pc[r] = "commit" /\ owed[r] = {}
    /\ pc' = [pc EXCEPT ![r] = "idle"] /\ job' = [job EXCEPT ![r] = NoJobs]
    /\ UNCHANGED <<mail, disk, listing, left, att, owed, bounds>>

\* The context ends: what was not handed out is dropped, the rest finishes.
Cancel(r) ==
    /\ pc[r] = "work" /\ \E m \in Msgs : job[r][m] = "todo"
    /\ stops < MaxStops /\ stops' = stops + 1
    /\ pc' = [pc EXCEPT ![r] = "drain"]
    /\ job' = [job EXCEPT ![r] = [m \in Msgs |-> IF @[m] = "todo" THEN "none" ELSE @[m]]]
    /\ UNCHANGED <<mail, disk, listing, left, att, owed, faults, writeFaults>>

Drained(r) ==
    /\ pc[r] = "drain" /\ Active(r) = {}
    /\ pc' = [pc EXCEPT ![r] = "idle"] /\ job' = [job EXCEPT ![r] = NoJobs]
    /\ UNCHANGED <<mail, disk, listing, left, att, owed, bounds>>

Crash(r) ==
    /\ pc[r] # "idle" /\ stops < MaxStops /\ stops' = stops + 1
    /\ pc' = [pc EXCEPT ![r] = "idle"] /\ job' = [job EXCEPT ![r] = NoJobs]
    /\ owed' = [owed EXCEPT ![r] = {}]
    /\ UNCHANGED <<mail, disk, listing, left, att, faults, writeFaults>>

-----------------------------------------------------------------------------
Job(r, m) ==
    \/ Pick(r, m) \/ Get(r, m) \/ WriteBody(r, m) \/ WriteAtt(r, m) \/ MessageDone(r, m)
    \/ \E a \in Atts : Download(r, m, a)
    \/ \E n \in Notes : WriteNote(r, m, n)
Step(r) ==
    \/ \E md \in conf.modes : Begin(r, md)
    \/ ListFolder(r) \/ ListFails(r)
    \/ \E m \in Msgs : Job(r, m)
    \/ Join(r) \/ CommitBegin(r) \/ CommitEnd(r) \/ End(r) \/ Drained(r)

Next ==
    \/ \E f \in AllFolders : Arrive(f)
    \/ \E r \in Runs : Step(r) \/ BeginFails(r) \/ Cancel(r) \/ Crash(r)

Spec == Init /\ [][Next]_vars

\* A run that was begun goes on, and the schedule begins another.
FairSpec == Spec /\ \A r \in Runs : WF_vars(Step(r))

-----------------------------------------------------------------------------
(* Properties. *)

\* Messages before the saved delta link are never listed again.
Covered(m) == link[m[1]] >= m[2]

\* The files of a message that are not there, or not whole.
Lacks(m) == {p \in {Body} \cup AttsOf(SourceOf(m[1])) : file[m][p] # "ok"}
InHand(m) == \E r \in Runs : job[r][m] \in Running

\* Every message a saved delta link covers is there and whole, or somebody is
\* writing it, whatever runs failed, were killed or overlapped.
NothingLost == \A m \in Msgs : Covered(m) => Body \notin Lacks(m) \/ InHand(m)

\* ... with all the attachments it names.
NothingMissing == \A m \in Msgs : Covered(m) => Lacks(m) = {} \/ InHand(m)

\* The next run passes over a message that exists, so one that was torn, or lacks
\* an attachment, may stay like that for good.  Every message that is covered and
\* left like that, nobody at work on it, has cost a fault, or was in the hands of a
\* worker of a run that was killed.
Gaps == {m \in Msgs : Covered(m) /\ Lacks(m) # {} /\ ~InHand(m)}
GapsCostAFault == Cardinality(Gaps) <= faults + writeFaults + Workers * stops

\* A link covers no message of which there is nothing at all.
NonePassedOver == \A m \in Msgs : Covered(m) => Exists(m, Body)

\* What a saved link covers is there and whole, except for what faults have taken
\* from it.
LinksAreTrue == NonePassedOver /\ GapsCostAFault

\* The delta file cannot be parsed and nobody is writing it.
Broken(s) == state[s] = "torn" /\ \A r \in Runs : pc[r] # "saving"

\* Raw runs leave out the services that cannot give raw mail.
Served(f) == Configured("imap") => SourceOf(f) \in RawMailers

\* More than a page of OnlyOffice's mail arrived after the message.
PagedOut(f, i) == Kind[SourceOf(f)] = "onlyoffice" /\ mail[f] >= i + OOPage

Stored(f, i) == Exists(<<f, i>>, Body) \/ PagedOut(f, i) \/ ~Served(f)

\* Again and again nothing that has arrived is still to be downloaded, and nothing
\* is asked for again that a delta link should cover -- unless the delta file of a
\* source cannot be read any more, which stops every run, or the message is not on
\* the one page OnlyOffice is asked for.
EventuallySynced ==
    []<>(\/ \E s \in SourceSet : Broken(s)
         \/ /\ \A f \in AllFolders : \A i \in 1..mail[f] : Stored(f, i)
            /\ \A s \in Delta : \A f \in FoldersOf(s) : link[f] = mail[f])
=============================================================================

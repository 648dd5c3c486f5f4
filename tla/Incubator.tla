------------------------------ MODULE Incubator ------------------------------
(***************************************************************************)
(* mail/incubator: letters of an old mail corpus are saved one by one into *)
(* a mailbox of the mail server, which does not recognize duplicates.  A   *)
(* manifest per import, written every few letters, remembers what has been *)
(* saved; the manifests of other imports keep a letter from coming twice.  *)
(***************************************************************************)
EXTENDS Integers, FiniteSets, Sequences, SequencesExt

CONSTANTS
    Imports,            \* incubator.imports of the configuration
    IncubatorCommands,  \* command lines: [limit, folders, force, dry]
    Numeric,            \* directories of single letters
    Every,              \* manifestSaveEvery (25)
    MaxIncubatorRuns, MaxIncubatorFaults

\* Without imports the program ends at once.
ASSUME IncubatorAssumption ==
    /\ \A c \in Imports : c \in Seq(Range(c)) /\ c # <<>>
    /\ Every \in Nat \ {0}

VARIABLES
    imports,   \* the configuration in use
    icmd,      \* the command line
    ipc,       \* "idle", "open", "next" or "record"
    imp,       \* the import
    stored,    \* the letters in the mailboxes: [imp, key, box, uid], a uid per copy
    manifest,  \* per import: the keys of the manifest on disk
    mem,       \* the manifest in memory
    other,     \* keys of the manifests of SkipState
    window,    \* letters of this run still to be looked at
    inRun, ensured,
    emptied,   \* imports whose mailbox was emptied but not yet the manifest
    forgot,    \* a manifest was emptied but not the mailbox
    iruns, ifaults

incubatorVars == <<imports, icmd, ipc, imp, stored, manifest, mem, other, window, inRun, ensured,
                   emptied, forgot, iruns, ifaults>>

-----------------------------------------------------------------------------
(* A letter: message id and hash of the text, senders and addressees, the   *)
(* directory it lies in, whether it can be parsed and whether the server    *)
(* may refuse it.                                                           *)

\* A letter without a Message-ID is known by its text.
Key(l) == IF l.mid = "none" THEN l.hash ELSE l.mid

\* Directories named by a number hold one letter and make no folder.
MailboxOfDir(dir) ==
    LET folders == SelectSeq(dir, LAMBDA d : d \notin Numeric)
    IN IF folders = <<>> THEN <<"INBOX">> ELSE folders

Root(i) == imports[i]

\* Scan fails on the first letter it cannot parse.
ScanFails(i) == \E j \in DOMAIN Root(i).letters : ~Root(i).letters[j].ok

FromMatches(l, addrs) == l.from \cap addrs # {}
Kept(i) == SelectSeq(Root(i).letters, LAMBDA l : ~FromMatches(l, Root(i).skipFrom))

Window(i) ==
    IF icmd.limit = 0 \/ Len(Kept(i)) <= icmd.limit THEN Kept(i)
    ELSE SubSeq(Kept(i), 1, icmd.limit)

LayoutOf(l, owner) ==
    IF owner \in l.from THEN <<"Sent">>
    ELSE IF owner \in l.to THEN <<"INBOX">> ELSE <<"INBOX", "Unmatched">>

MailboxOf(i, l) ==
    IF Root(i).owner # "" THEN LayoutOf(l, Root(i).owner)
    ELSE IF icmd.folders THEN MailboxOfDir(l.dir) ELSE <<"INBOX">>

\* Run refuses these before it does anything.
OptionsFail(i) ==
    \/ icmd.folders /\ Root(i).owner # ""
    \/ Root(i).strict /\ Root(i).owner = ""

-----------------------------------------------------------------------------
IncubatorInit ==
    /\ imports \in Imports /\ icmd \in IncubatorCommands
    /\ ipc = "idle" /\ imp = 1
    /\ stored = {}
    /\ manifest = [i \in DOMAIN imports |-> {}]
    /\ mem = {} /\ other = {} /\ window = <<>> /\ inRun = {} /\ ensured = {}
    /\ emptied = {} /\ forgot = FALSE /\ iruns = 0 /\ ifaults = 0

\* A forced run is meant for a mailbox somebody has just emptied.
IncubatorRun(o) ==
    /\ ipc = "idle" /\ iruns < MaxIncubatorRuns
    /\ iruns' = iruns + 1 /\ icmd' = o /\ ipc' = "open" /\ imp' = 1
    /\ stored' = IF o.force /\ ~o.dry THEN {} ELSE stored
    /\ emptied' = IF o.force /\ ~o.dry THEN DOMAIN imports ELSE emptied
    /\ UNCHANGED <<imports, forgot, manifest, mem, other, window, inRun, ensured, ifaults>>

\* On to the next import, with or without the manifest having been written.
NextImport(m) ==
    /\ manifest' = [manifest EXCEPT ![imp] = m]
    /\ IF imp = Len(imports) THEN ipc' = "idle" /\ UNCHANGED imp
       ELSE ipc' = "open" /\ imp' = imp + 1
    /\ UNCHANGED <<imports, icmd, other, mem, window, inRun, ensured, iruns>>

\* A manifest written by a forced run lists the emptied mailbox.
ManifestWritten(is) ==
    /\ emptied' = IF icmd.force THEN emptied \ is ELSE emptied
    /\ UNCHANGED forgot

IncubatorFault == ifaults < MaxIncubatorFaults /\ ifaults' = ifaults + 1

OpenImport ==
    /\ ipc = "open"
    /\ IF OptionsFail(imp) \/ ScanFails(imp)
       THEN NextImport(manifest[imp])
       ELSE /\ ipc' = "next"
            /\ mem' = IF icmd.force THEN {} ELSE manifest[imp]
            /\ other' = UNION {manifest[j] : j \in Root(imp).skipState}
            /\ window' = Window(imp) /\ inRun' = {} /\ ensured' = {}
            /\ UNCHANGED <<imports, icmd, imp, manifest, iruns>>
    /\ UNCHANGED <<stored, emptied, forgot, ifaults>>

\* Already in the mailbox, in another one, or of another owner.
PassedOver(l) ==
    \/ ~icmd.force /\ Key(l) \in mem
    \/ Key(l) \in other
    \/ Key(l) \in inRun
    \/ Root(imp).strict /\ MailboxOf(imp, l) = <<"INBOX", "Unmatched">>

Look == ipc = "next" /\ window # <<>>

PassOver ==
    /\ Look /\ (PassedOver(Head(window)) \/ icmd.dry)
    /\ window' = Tail(window)
    /\ inRun' = IF PassedOver(Head(window)) THEN inRun ELSE inRun \cup {Key(Head(window))}
    /\ UNCHANGED <<imports, icmd, ipc, imp, stored, manifest, mem, other, ensured, emptied, forgot, iruns, ifaults>>

\* Nothing is looked for in the mailbox: each call adds a copy.
Store(l) ==
    stored' = stored \cup {[imp |-> imp, key |-> Key(l), box |-> MailboxOf(imp, l), uid |-> Cardinality(stored)]}

ToSave == Look /\ ~icmd.dry /\ ~PassedOver(Head(window))

DoveadmSave ==
    /\ ToSave
    /\ Store(Head(window)) /\ ipc' = "record"
    /\ ensured' = ensured \cup {MailboxOf(imp, Head(window))}
    /\ UNCHANGED <<imports, icmd, imp, manifest, mem, other, window, inRun, emptied, forgot, iruns, ifaults>>

\* The server refuses this letter, now.
Rejected ==
    /\ ToSave /\ Head(window).big
    /\ window' = Tail(window)
    /\ UNCHANGED <<imports, icmd, ipc, imp, stored, manifest, mem, other, inRun, ensured, emptied, forgot, iruns, ifaults>>

\* The mailbox cannot be made, or doveadm fails, perhaps after it has saved the
\* letter: what is known to be saved is written down.
TransportFails ==
    /\ ToSave /\ IncubatorFault
    /\ \/ Store(Head(window)) \/ UNCHANGED stored
    /\ NextImport(mem) /\ ManifestWritten({imp})

\* The letter or the manifest cannot be read or written: the run ends at once.
FileFails ==
    /\ ipc \in {"next", "record"} /\ ~icmd.dry /\ IncubatorFault
    /\ NextImport(manifest[imp]) /\ UNCHANGED <<stored, emptied, forgot>>

\* Mutant: the manifest is written at the end only.
RecordAtEnd ==
    /\ ipc = "record" /\ ipc' = "next"
    /\ mem' = mem \cup {Key(Head(window))} /\ inRun' = inRun \cup {Key(Head(window))}
    /\ window' = Tail(window)
    /\ UNCHANGED <<imports, icmd, imp, stored, manifest, other, ensured, emptied, forgot, iruns, ifaults>>

Record ==
    /\ ipc = "record" /\ ipc' = "next"
    /\ mem' = mem \cup {Key(Head(window))} /\ inRun' = inRun \cup {Key(Head(window))}
    /\ window' = Tail(window)
    /\ IF Cardinality(mem') % Every = 0
       THEN manifest' = [manifest EXCEPT ![imp] = mem'] /\ ManifestWritten({imp})
       ELSE UNCHANGED <<manifest, emptied, forgot>>
    /\ UNCHANGED <<imports, icmd, imp, stored, other, ensured, iruns, ifaults>>

EndImport ==
    /\ ipc = "next" /\ window = <<>>
    /\ NextImport(IF icmd.dry THEN manifest[imp] ELSE mem)
    /\ IF icmd.dry THEN UNCHANGED <<emptied, forgot>> ELSE ManifestWritten({imp})
    /\ UNCHANGED <<stored, ifaults>>

\* SIGINT: what is in memory is written down, also by a dry run.  The imports
\* that follow come to their first letter and do the same.
Interrupted ==
    LET late == {j \in DOMAIN imports : j > imp /\ ~OptionsFail(j) /\ ~ScanFails(j) /\ Window(j) # <<>>} IN
    /\ Look /\ ipc' = "idle"
    /\ manifest' = [j \in DOMAIN imports |->
                       IF j = imp THEN mem
                       ELSE IF j \in late /\ icmd.force THEN {} ELSE manifest[j]]
    /\ emptied' = IF icmd.force /\ ~icmd.dry THEN emptied \ (late \cup {imp}) ELSE emptied
    /\ forgot' = (forgot \/ (icmd.force /\ icmd.dry))
    /\ UNCHANGED <<imports, icmd, imp, stored, mem, other, window, inRun, ensured, iruns, ifaults>>

Killed ==
    /\ ipc # "idle" /\ IncubatorFault
    /\ ipc' = "idle"
    /\ UNCHANGED <<imports, icmd, imp, stored, manifest, mem, other, window, inRun, ensured, emptied, forgot, iruns>>

IncubatorNext ==
    \/ OpenImport \/ PassOver \/ DoveadmSave \/ Rejected \/ TransportFails \/ FileFails
    \/ Record \/ EndImport \/ Interrupted \/ Killed
    \/ \E o \in IncubatorCommands : IncubatorRun(o)

-----------------------------------------------------------------------------
StoredKeys == {c.key : c \in stored}
Holds(i, k) == \E c \in stored : c.imp = i /\ c.key = k

(* Over any runs of imports that know of each other's manifests no letter is  *)
(* in the mailboxes twice, except for the letters since the last write of the *)
(* manifest, at most Every for each run that failed, and after a dry forced run *)
(* that was interrupted, which empties the manifest.                          *)
DuplicatesAreBounded ==
    ~forgot /\ (\A i \in DOMAIN imports : Root(i).skipState = DOMAIN imports \ {i}) =>
        Cardinality(stored) - Cardinality(StoredKeys) <= Every * ifaults

(* What a manifest lists is in the mailbox, so that passing over it loses     *)
(* nothing, unless a forced run died before it wrote the manifest: it leaves  *)
(* that of the mailbox before it was emptied.                                 *)
ListedIsStored ==
    \A i \in DOMAIN imports \ emptied : \A k \in manifest[i] : Holds(i, k)

(* What a manifest lists is in its mailbox, and but for what faults and forced *)
(* runs have made it forget, it lists what is.                                 *)
ManifestsAreTrue == DuplicatesAreBounded /\ ListedIsStored
=============================================================================

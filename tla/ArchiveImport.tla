---------------------------- MODULE ArchiveImport ----------------------------
(***************************************************************************)
(* mail/import-pst and mail/convert-mbox: letters of Outlook and of mbox   *)
(* archives are written into the mail corpus, each under a name made of    *)
(* its contents, and converted to markdown.  Neither is written by way of  *)
(* a temporary file, and what exists is taken to be whole.                 *)
(***************************************************************************)
EXTENDS Integers, FiniteSets, Sequences, SequencesExt

CONSTANTS
    ArchiveConfigs,     \* pst.sources: sequences of [seg, letters]
    Mailboxes,          \* trees of mbox files: sequences of letters
    PolicyFolders,      \* folders SkipFolder excludes
    MaxArchiveRuns, MaxArchiveFaults

\* The corpus of the archives is not the one of the mbox files.
ASSUME ArchiveAssumption ==
    /\ \A c \in ArchiveConfigs :
          /\ c \in Seq(Range(c))
          /\ \A i \in DOMAIN c : c[i].seg # "mbox" /\ c[i].letters \in Seq(Range(c[i].letters))
    /\ \A m \in Mailboxes : m \in Seq(Range(m))

VARIABLES
    sources,    \* the configuration in use
    mbox,       \* the mbox tree
    apc,        \* "idle", "extract", "copy", "sync", "split" or "convert"
    src,        \* the source being extracted
    staging,    \* per directory: the letters readpst has left there
    todo,       \* letters still to be copied, or targets to be converted
    emls,        \* target -> "whole" or "torn"
    markdown,   \* target -> "whole" or "torn", the body
    withParts,  \* targets whose attachments have been written
    pstSeen,    \* the checkpoint
    program,    \* "pst", "mbox", "import" or "force"
    fails,      \* a letter could not be converted in this run
    clean,      \* the program has just ended with 0
    aruns, afaults

archiveVars == <<sources, mbox, apc, src, staging, todo, emls, markdown, withParts, pstSeen, program,
                 fails, clean, aruns, afaults>>

disk == <<emls, markdown, withParts, pstSeen>>

-----------------------------------------------------------------------------
(* A letter: folder, contents, whether it can be parsed.  A source is known  *)
(* by the directory its label gives, and two labels may give the same.  The  *)
(* place of a letter in the corpus is [seg, l].                              *)

skipPolicyDir(l) == l.folder \in PolicyFolders

\* mbox files the policy excludes are not opened.
SplitMboxDir(m) == {l \in Range(m) : ~skipPolicyDir(l)}

Write(f, t, v) == [u \in DOMAIN f \cup {t} |-> IF u = t THEN v ELSE f[u]]
Of(kind, S) == {t \in S : t.seg = "mbox" <=> kind = "mbox"}

-----------------------------------------------------------------------------
ArchiveInit ==
    /\ sources \in ArchiveConfigs /\ mbox \in Mailboxes
    /\ apc = "idle" /\ src = 1 /\ staging = [s \in {} |-> {}] /\ todo = <<>>
    /\ emls = [t \in {} |-> ""] /\ markdown = [t \in {} |-> ""] /\ withParts = {}
    /\ pstSeen = {} /\ program = "pst" /\ fails = FALSE /\ clean = FALSE /\ aruns = 0 /\ afaults = 0

ArchiveFault == afaults < MaxArchiveFaults /\ afaults' = afaults + 1
ArchiveRun == apc = "idle" /\ aruns < MaxArchiveRuns /\ aruns' = aruns + 1 /\ fails' = FALSE /\ clean' = FALSE
ArchiveEnds == apc' = "idle" /\ todo' = <<>>

\* mail/import-pst; a --dry-run only prints.
ImportPST ==
    /\ ArchiveRun /\ apc' = "extract" /\ src' = 1 /\ program' = "pst"
    /\ UNCHANGED <<sources, mbox, staging, todo, disk, afaults>>

\* mail/convert-mbox.
ConvertMbox ==
    /\ ArchiveRun /\ apc' = "split" /\ program' = "mbox"
    /\ todo' = SetToSeq({[seg |-> "mbox", l |-> l] : l \in SplitMboxDir(mbox)})
    /\ UNCHANGED <<sources, mbox, src, staging, disk, afaults>>

\* mail/import --from-eml on what convert-mbox has written, perhaps with --force.
MailImport(force) ==
    /\ ArchiveRun /\ apc' = "convert" /\ program' = IF force THEN "force" ELSE "import"
    /\ todo' = SetToSeq(Of("mbox", DOMAIN emls))
    /\ UNCHANGED <<sources, mbox, src, staging, disk, afaults>>

\* Mutant: the staging directory is not wiped, and readpst renames its folders.
ReadPSTAgain ==
    LET s == sources[src]
        before == IF s.seg \in DOMAIN staging THEN staging[s.seg] ELSE {}
        renamed(l) == IF \E k \in before : k.folder = l.folder
                      THEN [l EXCEPT !.folder = Append(@, "1")] ELSE l
    IN /\ apc = "extract" /\ src <= Len(sources)
       /\ staging' = Write(staging, s.seg, before \cup {renamed(l) : l \in Range(s.letters)})
       /\ src' = src + 1
       /\ UNCHANGED <<sources, mbox, apc, todo, disk, program, fails, clean, aruns, afaults>>

\* Each source goes into a directory just wiped, also the one of another
\* source of the same name; it may fail half way.
ReadPST ==
    LET s == sources[src] IN
    /\ apc = "extract" /\ src <= Len(sources)
    /\ \/ /\ staging' = Write(staging, s.seg, Range(s.letters))
          /\ src' = src + 1 /\ UNCHANGED <<apc, todo, afaults>>
       \/ /\ ArchiveFault /\ ArchiveEnds /\ UNCHANGED src
          /\ \E some \in {{}, Range(s.letters)} : staging' = Write(staging, s.seg, some)
    /\ UNCHANGED <<sources, mbox, disk, program, fails, clean, aruns>>

\* All of the staging tree is listed, folders of the policy left out.
ListStaging ==
    LET staged == UNION {{[seg |-> g, l |-> l] : l \in staging[g]} : g \in DOMAIN staging} IN
    /\ apc = "extract" /\ src > Len(sources)
    /\ apc' = "copy" /\ todo' = SetToSeq({t \in staged : ~skipPolicyDir(t.l)})
    /\ UNCHANGED <<sources, mbox, src, staging, disk, program, fails, clean, aruns, afaults>>

\* A letter that exists is not written again; one being written when the disk
\* is full or the program killed stays as it is.
WriteLetter(t) ==
    \/ t \in DOMAIN emls /\ todo' = Tail(todo) /\ UNCHANGED <<apc, emls, afaults>>
    \/ t \notin DOMAIN emls /\ emls' = Write(emls, t, "whole") /\ todo' = Tail(todo) /\ UNCHANGED <<apc, afaults>>
    \/ t \notin DOMAIN emls /\ ArchiveFault /\ emls' \in {emls, Write(emls, t, "torn")} /\ ArchiveEnds

CopyStep ==
    /\ todo # <<>> /\ WriteLetter(Head(todo))
    /\ UNCHANGED <<sources, mbox, src, staging, markdown, withParts, pstSeen, program, fails, clean, aruns>>

Copy == apc = "copy" /\ CopyStep
splitMboxToDir == apc = "split" /\ CopyStep

\* source.Sync: every letter is new once; the checkpoint is written, or the run ends.
Synced ==
    /\ apc = "copy" /\ todo = <<>>
    /\ \/ /\ pstSeen' = pstSeen \cup {t.l.id : t \in {u \in Of("pst", DOMAIN emls) : u.seg \in DOMAIN staging /\ u.l \in staging[u.seg]}}
          /\ apc' = "convert" /\ todo' = SetToSeq(Of("pst", DOMAIN emls)) /\ UNCHANGED afaults
       \/ ArchiveFault /\ ArchiveEnds /\ UNCHANGED pstSeen
    /\ UNCHANGED <<sources, mbox, src, staging, emls, markdown, withParts, program, fails, clean, aruns>>

SplitEnd ==
    /\ apc = "split" /\ todo = <<>> /\ ArchiveEnds
    /\ UNCHANGED <<sources, mbox, src, staging, disk, program, fails, clean, aruns, afaults>>

\* FromEML passes over a letter with a message.md.
Converted(t) == program # "force" /\ t \in DOMAIN markdown

ConvertNext == apc = "convert" /\ todo # <<>> /\ todo' = Tail(todo)

\* The body, then the attachments.  A letter cut short may not parse.
Convert ==
    LET t == Head(todo) IN
    /\ ConvertNext
    /\ \/ Converted(t) /\ UNCHANGED <<markdown, withParts, fails>>
       \/ ~Converted(t) /\ (~t.l.ok \/ emls[t] = "torn") /\ fails' = TRUE /\ UNCHANGED <<markdown, withParts>>
       \/ /\ ~Converted(t) /\ t.l.ok
          /\ markdown' = Write(markdown, t, emls[t]) /\ withParts' = withParts \cup {t}
          /\ UNCHANGED fails
    /\ UNCHANGED <<sources, mbox, apc, src, staging, emls, pstSeen, program, clean, aruns, afaults>>

\* What a conversion cut short leaves: the body as it was, none or an empty
\* one, a part of it, or the body without all of its attachments.
CutShort(t) ==
    /\ markdown' \in {markdown, [u \in DOMAIN markdown \ {t} |-> markdown[u]],
                     Write(markdown, t, "torn"), Write(markdown, t, emls[t])}
    /\ withParts' \in {withParts, withParts \ {t}}

\* A file cannot be written: the letter counts as failed and the next one follows.
ConvertFails ==
    LET t == Head(todo) IN
    /\ ConvertNext /\ ~Converted(t) /\ t.l.ok /\ ArchiveFault
    /\ fails' = TRUE /\ CutShort(t)
    /\ UNCHANGED <<sources, mbox, apc, src, staging, emls, pstSeen, program, clean, aruns>>

ConvertDone ==
    /\ apc = "convert" /\ todo = <<>> /\ ArchiveEnds
    /\ clean' = ~fails
    /\ UNCHANGED <<sources, mbox, src, staging, disk, program, fails, aruns, afaults>>

\* Killed, perhaps between the body of a letter and its attachments.
ArchiveKilled ==
    /\ apc # "idle" /\ ArchiveFault /\ ArchiveEnds
    /\ \/ UNCHANGED <<markdown, withParts>>
       \/ apc = "convert" /\ todo # <<>> /\ ~Converted(Head(todo)) /\ Head(todo).l.ok /\ CutShort(Head(todo))
    /\ UNCHANGED <<sources, mbox, src, staging, emls, pstSeen, program, fails, clean, aruns>>

ArchiveNext ==
    \/ ImportPST \/ ConvertMbox \/ (\E force \in BOOLEAN : MailImport(force))
    \/ ReadPST \/ ListStaging \/ Copy \/ splitMboxToDir \/ Synced \/ SplitEnd
    \/ Convert \/ ConvertFails \/ ConvertDone \/ ArchiveKilled

-----------------------------------------------------------------------------
\* The last source whose letters lie in its directory.
LastOf(i) == \A j \in DOMAIN sources : sources[j].seg = sources[i].seg => j <= i

Place(i, l) == [seg |-> sources[i].seg, l |-> l]
Archived == UNION {{Place(i, l) : l \in Range(sources[i].letters)} : i \in DOMAIN sources}

\* What an import has to bring: of sources whose labels give one directory,
\* the letters of the last one.
Needed ==
    {t \in Archived : /\ ~skipPolicyDir(t.l)
                      /\ \E i \in DOMAIN sources : LastOf(i) /\ \E l \in Range(sources[i].letters) : t = Place(i, l)}

Whole(t) == emls[t] = "whole" /\ markdown[t] = "whole" /\ t \in withParts

(* A run of import-pst that ends with 0 leaves every letter it has to bring   *)
(* in the corpus, with its markdown, whatever runs failed before.  What those *)
(* left behind half written is not repaired and not noticed: a letter, its    *)
(* body or its attachments, at most one for every fault.                      *)
CleanImportIsComplete ==
    clean /\ program = "pst" =>
        /\ Needed \subseteq DOMAIN markdown \cap DOMAIN emls
        /\ Cardinality({t \in Needed : ~Whole(t)}) <= afaults

(* However often archives are imported, the corpus has each letter once per   *)
(* folder it lies in, and none of a folder the policy excludes.               *)
OneCopyPerLetter == \A t \in Of("pst", DOMAIN emls) : t \in Archived /\ ~skipPolicyDir(t.l)

(* An import that reports success has left every letter it had to, once, and  *)
(* whole unless a fault cut it short.                                         *)
ArchiveIsExact == CleanImportIsComplete /\ OneCopyPerLetter
=============================================================================

------------------------------ MODULE AnnIndex ------------------------------
(***************************************************************************)
(* The IVF vector index of internal/brain/ann and the three commands of    *)
(* internal/brain/anntool.go that write it (build, upsert, ensure).        *)
(*                                                                         *)
(* On disk the index is a snapshot (replaced by write-temp-then-rename,    *)
(* so one atomic step here) and an append-only log of the rows upserted    *)
(* since, one JSON line per row.  One tool process at a time works on      *)
(* them (the single-writer rule of the package); it may die between any    *)
(* two of its file operations, and inside one append.                      *)
(* Vectors, centroids and cells are abstracted: a row is its leaf id.      *)
(***************************************************************************)
EXTENDS Integers, FiniteSets, Sequences

CONSTANTS
    Ids,          \* leaf ids the database may hold
    Degenerate,   \* those whose embedding is zero or of a wrong length
    StaleNum,     \* annEnsurePlan rebuilds when len*StaleNum < rows*StaleDen
    StaleDen,     \* (10 and 9 in the code)
    CompactAt,    \* walCompactThreshold (10000 in the code)
    MaxLines,     \* bound on the log: beyond it only `build` is started
    MaxFaults,    \* bound on process deaths
    MaxDbOps      \* bound on database changes

Eligible == Ids \ Degenerate

ASSUME AnnAssumption ==
    /\ IsFiniteSet(Ids) /\ Degenerate \subseteq Ids
    /\ StaleNum \in Nat \ {0} /\ StaleDen \in Nat \ {0} /\ StaleDen <= StaleNum
    /\ CompactAt \in Nat
    /\ MaxLines \in Nat /\ MaxFaults \in Nat /\ MaxDbOps \in Nat

VARIABLES
    db,       \* leaf ids stored in kb.lbug
    snap,     \* the snapshot file: state and the ids it lists
    wal,      \* the log file: its lines (an absent file is the empty log)
    pc,       \* step the tool process is at
    cmd,      \* its command
    mem,      \* idCell: ids in the process's index
    dirty,    \* log lines since the last snapshot, as the process counts them
    added,    \* did this command index a new row?
    rows,     \* ids extracted from the database
    todo,     \* rows still to be upserted
    faults, dbOps   \* what the bounds count

vars == <<db, snap, wal, pc, cmd, mem, dirty, added, rows, todo, faults, dbOps>>
disk == <<snap, wal>>
counts == <<faults, dbOps>>

\* A log line: the row's id, is its JSON intact, has its newline been written.
Line == [id : Ids, whole : BOOLEAN, nl : BOOLEAN]
Snapshot == [st : {"none", "good", "bad"}, ids : SUBSET Ids]
NoSnapshot == [st |-> "none", ids |-> {}]

Commands == {"build", "upsert", "ensure"}
Steps == {"idle", "start", "opened", "dropSnap", "dropWal", "upsert", "build",
          "save", "reset", "done"}

-----------------------------------------------------------------------------
(* The two files. *)

\* replayWAL keeps the rows before the first line that does not parse.
Replayed(w) ==
    {w[i].id : i \in {j \in DOMAIN w : \A k \in 1..j : w[k].whole}}

\* O_APPEND writes after whatever the file ends with: a row appended to a line
\* without newline makes one line of both, which no longer parses.
AppendLine(w, r, whole, nl) ==
    IF w # <<>> /\ ~w[Len(w)].nl
      THEN [w EXCEPT ![Len(w)] = [id |-> r, whole |-> FALSE, nl |-> nl]]
      ELSE Append(w, [id |-> r, whole |-> whole, nl |-> nl])

\* No append to this log was torn (none of its lines is a stump, or open).
Clean(w) == \A i \in DOMAIN w : w[i].whole /\ w[i].nl

\* A snapshot without centroids is written but readSnapshot refuses it.
Written(S) == [st |-> IF S = {} THEN "bad" ELSE "good", ids |-> S]

OnDisk == snap.ids \cup Replayed(wal)

\* What Open yields: a snapshot it cannot read is an error, not an index.
Recoverable == IF snap.st = "bad" THEN {} ELSE OnDisk

Stale(indexed, stored) == indexed * StaleNum < stored * StaleDen

\* annEnsurePlan
PlanBuild(indexed, stored) == stored > 0 /\ (indexed <= 0 \/ Stale(indexed, stored))

-----------------------------------------------------------------------------
Init ==
    /\ db = {} /\ snap = NoSnapshot /\ wal = <<>>
    /\ pc = "idle" /\ cmd = "ensure"
    /\ mem = {} /\ dirty = 0 /\ added = FALSE /\ rows = {} /\ todo = {}
    /\ faults = 0 /\ dbOps = 0

\* A process that ends leaves the files and nothing else.
Ends ==
    /\ pc' = "idle"
    /\ mem' = {} /\ dirty' = 0 /\ added' = FALSE /\ rows' = {} /\ todo' = {}
    /\ UNCHANGED cmd

Start(c) ==
    /\ pc = "idle"
    /\ Len(wal) < MaxLines \/ c = "build"
    /\ pc' = "start" /\ cmd' = c
    /\ UNCHANGED <<db, disk, mem, dirty, added, rows, todo, counts>>

\* build: extract first, then remove both files.
BuildExtract ==
    /\ pc = "start" /\ cmd = "build"
    /\ \/ /\ db = {} /\ Ends
       \/ /\ db # {}
          /\ rows' = db /\ pc' = "dropSnap"
          /\ UNCHANGED <<cmd, mem, dirty, added, todo>>
    /\ UNCHANGED <<db, disk, counts>>

\* Mutant: the log is not replayed.
OpenIndexNoReplay ==
    /\ pc = "start" /\ cmd # "build" /\ snap.st # "bad"
    /\ mem' = snap.ids /\ dirty' = 0 /\ pc' = "opened"
    /\ UNCHANGED <<db, disk, cmd, added, rows, todo, counts>>

\* ensure and upsert: Open, which replays the log over the snapshot.
OpenIndex ==
    /\ pc = "start" /\ cmd # "build"
    /\ snap.st # "bad"
    /\ ~(cmd = "ensure" /\ snap.st = "none" /\ Replayed(wal) # {})
    /\ mem' = Recoverable
    /\ dirty' = Cardinality(Replayed(wal) \ snap.ids)
    /\ pc' = "opened"
    /\ UNCHANGED <<db, disk, cmd, added, rows, todo, counts>>

\* upsert gives up on a snapshot it cannot read.
OpenFails ==
    /\ pc = "start" /\ cmd = "upsert" /\ snap.st = "bad"
    /\ Ends
    /\ UNCHANGED <<db, disk, counts>>

\* Mutant: ensure fails on an unreadable snapshot as upsert does.
DiscardCorruptFails ==
    /\ pc = "start" /\ cmd = "ensure" /\ snap.st = "bad"
    /\ Ends
    /\ UNCHANGED <<db, disk, counts>>

\* ensure discards an unreadable snapshot with its log ...
DiscardCorrupt ==
    /\ pc = "start" /\ cmd = "ensure" /\ snap.st = "bad"
    /\ pc' = "dropSnap"
    /\ UNCHANGED <<db, disk, cmd, mem, dirty, added, rows, todo, counts>>

\* ... and a log that has rows but no snapshot under it.
DiscardLogOnly ==
    /\ pc = "start" /\ cmd = "ensure" /\ snap.st = "none" /\ Replayed(wal) # {}
    /\ pc' = "dropWal"
    /\ UNCHANGED <<db, disk, cmd, mem, dirty, added, rows, todo, counts>>

DropSnapshot ==
    /\ pc = "dropSnap"
    /\ snap' = NoSnapshot
    /\ pc' = "dropWal"
    /\ UNCHANGED <<db, wal, cmd, mem, dirty, added, rows, todo, counts>>

DropWal ==
    /\ pc = "dropWal"
    /\ wal' = <<>>
    /\ pc' = IF cmd = "build" THEN "build" ELSE "opened"
    /\ UNCHANGED <<db, snap, cmd, mem, dirty, added, rows, todo, counts>>

\* extractRows reads every leaf while the process holds kb.lbug; the plan and
\* the filter on new ids use that result, however the database changes later.
Extract ==
    /\ pc = "opened"
    /\ LET new == (db \ mem) \cap Eligible
           plan == IF cmd = "ensure" /\ PlanBuild(Cardinality(mem), Cardinality(db))
                     THEN "build" ELSE "upsert"
       IN \/ /\ db = {} /\ cmd = "ensure" /\ Ends
          \/ /\ db # {} \/ cmd = "upsert"
             /\ rows' = db /\ pc' = plan
             /\ todo' = IF plan = "build" THEN {} ELSE new
             /\ UNCHANGED <<cmd, mem, dirty, added>>
    /\ UNCHANGED <<db, disk, counts>>

\* Mutant: Build does not filter the rows.
BuildUnfiltered ==
    /\ pc = "build"
    /\ mem' = rows /\ dirty' = 0 /\ snap' = Written(rows) /\ pc' = "save"
    /\ UNCHANGED <<db, wal, cmd, added, rows, todo, counts>>

\* Index.Build: replace the index; an index opened with its path also writes
\* the snapshot here, a fresh one only in SaveTo.
Build ==
    /\ pc = "build"
    /\ mem' = rows \cap Eligible /\ dirty' = 0
    /\ snap' \in {snap, Written(rows \cap Eligible)}
    /\ pc' = "save"
    /\ UNCHANGED <<db, wal, cmd, added, rows, todo, counts>>

\* Mutant: the log is removed before the snapshot that replaces it is written.
SaveResetFirst ==
    /\ pc = "save"
    /\ wal' = <<>> /\ pc' = "reset"
    /\ UNCHANGED <<db, snap, cmd, mem, dirty, added, rows, todo, counts>>

\* Save / SaveTo: the new snapshot first ...
SaveSnapshot ==
    /\ pc = "save"
    /\ snap' = Written(mem)
    /\ pc' = "reset"
    /\ UNCHANGED <<db, wal, cmd, mem, dirty, added, rows, todo, counts>>

\* ... then the log it makes redundant is removed.
ResetWal ==
    /\ pc = "reset"
    /\ wal' = <<>> /\ dirty' = 0
    /\ pc' = "done"
    /\ UNCHANGED <<db, snap, cmd, mem, added, rows, todo, counts>>

\* Mutant: the row is indexed in memory only.
UpsertRowUnlogged(r) ==
    /\ pc = "upsert" /\ r \in todo
    /\ todo' = todo \ {r} /\ mem' = mem \cup {r}
    /\ dirty' = dirty + 1 /\ added' = TRUE
    /\ UNCHANGED <<db, snap, wal, pc, cmd, rows, counts>>

\* One turn of the upsert loop: memory first, then the log line.
UpsertRow(r) ==
    /\ pc = "upsert" /\ r \in todo
    /\ todo' = todo \ {r}
    /\ mem' = mem \cup {r}
    /\ wal' = AppendLine(wal, r, TRUE, TRUE)
    /\ dirty' = dirty + 1 /\ added' = TRUE
    /\ UNCHANGED <<db, snap, pc, cmd, rows, counts>>

\* Mutant: compaction truncates the log and forgets the snapshot.
UpsertEndTruncates ==
    /\ pc = "upsert" /\ todo = {}
    /\ pc' = IF cmd = "ensure" /\ added /\ dirty > CompactAt THEN "reset" ELSE "done"
    /\ UNCHANGED <<db, disk, cmd, mem, dirty, added, rows, todo, counts>>

\* The loop ends; ensure compacts a log that has grown past the threshold.
UpsertEnd ==
    /\ pc = "upsert" /\ todo = {}
    /\ pc' = IF cmd = "ensure" /\ added /\ dirty > CompactAt THEN "save" ELSE "done"
    /\ UNCHANGED <<db, disk, cmd, mem, dirty, added, rows, todo, counts>>

Finish ==
    /\ pc = "done"
    /\ Ends
    /\ UNCHANGED <<db, disk, counts>>

\* Killed, or an error return of any call in between.
Crash ==
    /\ pc \notin {"idle", "done"} /\ faults < MaxFaults
    /\ faults' = faults + 1
    /\ Ends
    /\ UNCHANGED <<db, disk, dbOps>>

\* The disk fills up or the machine loses power inside an append: a prefix of
\* the line is in the file, possibly all of it but the newline.
TornAppend(r) ==
    /\ pc = "upsert" /\ r \in todo /\ faults < MaxFaults
    /\ faults' = faults + 1
    /\ \E whole \in BOOLEAN : wal' = AppendLine(wal, r, whole, FALSE)
    /\ Ends
    /\ UNCHANGED <<db, snap, dbOps>>

\* Ingest, add and index only ever add leafs; --rebuild starts a new database.
Ingest(i) ==
    /\ dbOps < MaxDbOps /\ i \notin db
    /\ db' = db \cup {i} /\ dbOps' = dbOps + 1
    /\ UNCHANGED <<disk, pc, cmd, mem, dirty, added, rows, todo, faults>>

RebuildDb(S) ==
    /\ dbOps < MaxDbOps
    /\ db' = S /\ dbOps' = dbOps + 1
    /\ UNCHANGED <<disk, pc, cmd, mem, dirty, added, rows, todo, faults>>

ToolStep ==
    \/ BuildExtract \/ OpenIndex \/ OpenFails \/ DiscardCorrupt \/ DiscardLogOnly
    \/ DropSnapshot \/ DropWal \/ Extract \/ Build \/ SaveSnapshot \/ ResetWal
    \/ (\E r \in Ids : UpsertRow(r)) \/ UpsertEnd \/ Finish

Next ==
    \/ \E c \in Commands : Start(c)
    \/ ToolStep
    \/ Crash \/ \E r \in Ids : TornAppend(r)
    \/ (\E i \in Ids : Ingest(i)) \/ \E S \in SUBSET Ids : RebuildDb(S)

Spec == Init /\ [][Next]_vars

\* The wave runs `ensure` again and again, and a tool that started keeps going.
Fairness == WF_vars(ToolStep) /\ SF_vars(Start("ensure"))
FairSpec == Spec /\ Fairness

-----------------------------------------------------------------------------
(* Properties. *)

TypeOK ==
    /\ db \in SUBSET Ids /\ snap \in Snapshot /\ wal \in Seq(Line)
    /\ pc \in Steps /\ cmd \in Commands
    /\ mem \in SUBSET Ids /\ dirty \in Nat /\ added \in BOOLEAN
    /\ rows \in SUBSET Ids /\ todo \in SUBSET Ids
    /\ faults \in Nat /\ dbOps \in Nat

\* No row that cannot be searched (a zero vector, a wrong dimension) is ever in
\* the index, in its snapshot or in the log, whichever of Build, Upsert and
\* replay brought it there ("must never enter the index", ann.go:67).
OnlyIndexable == mem \cup snap.ids \cup Replayed(wal) \subseteq Eligible

\* While a process upserts or compacts, everything a restart could recover is
\* in its memory: rewriting the snapshot from memory and removing the log,
\* whatever step the process dies at, cannot drop a row.
MemCoversDisk ==
    (pc \in {"opened", "upsert"} \/ (pc \in {"save", "reset"} /\ added))
        => Recoverable \subseteq mem

\* When build, upsert or ensure reports success and no append was torn, an index
\* opened from the files has every row the command extracted that can be indexed
\* at all ("so a restart replays them", ann.go:254; "maintain the index so it
\* covers the DB").  After a torn append the code does not keep this promise.
EnsureCovers == pc = "done" /\ Clean(wal) => rows \cap Eligible \subseteq Recoverable

\* The rows no later append can damage: the snapshot's and those on complete,
\* terminated lines before the first bad one.
SettledOf(w) ==
    {w[i].id : i \in {j \in DOMAIN w : \A k \in 1..j : w[k].whole /\ w[k].nl}}

Settled == snap.ids \cup SettledOf(wal)

\* The valid prefix sticks (wal.go:12): a step takes a settled row off the disk
\* only by discarding an index that is being rebuilt, or in a rebuild that no
\* longer found that row in the database; compaction and torn appends never do.
SettledSticks ==
    [][\A r \in Settled \ Settled' :
         pc \in {"dropSnap", "dropWal"} \/ (~added /\ r \notin rows)]_vars

\* However often a tool dies, and after a snapshot that cannot be opened, the
\* repeated `ensure` gets every indexable leaf into the files again and again,
\* unless the log ends up torn.
EventuallyCovered == []<>(Clean(wal) => db \cap Eligible \subseteq Recoverable)

\* The index keeps the promise of the abstract store: outside a rebuild that has
\* not been saved, and while the log is not torn, what the process has indexed is
\* what a restart will find; and a torn log costs at most one row per append.
Unsaved == pc = "save" /\ ~added
Store == INSTANCE AnnStore WITH
           Rows <- Eligible, durable <- OnDisk, working <- mem, pending <- Unsaved,
           damaged <- ~Clean(wal)
StoreRefined == Store!StoreSpec
=============================================================================

----------------------------- MODULE BrainServe -----------------------------
(***************************************************************************)
(* The serve process of internal/brain: requests that read the graph       *)
(* database through one long-lived handle, writes that close that handle,  *)
(* open the file writable and reopen it, the lazily opened vector index,   *)
(* and the locks all of them take (brainMu, annMu, ingestMu and the worker *)
(* semaphore of pkg/httpapi).                                              *)
(*                                                                         *)
(* kb.lbug admits one handle of one process at a time.  Other processes of *)
(* the stack (bin/brain/add, the indexers, ann build) take it whenever     *)
(* this process does not hold it.  A request is one HTTP or MCP call; it   *)
(* is identified by the goroutine that serves it.                          *)
(***************************************************************************)
EXTENDS Integers, FiniteSets

CONSTANTS
    Reqs,       \* the requests
    Nobody,     \* no request
    Leafs,      \* leaf ids
    Edges,      \* synapses between leafs
    Ends,       \* Ends[e]: the leafs that edge e joins
    IndexIds,   \* leaf ids in the vector index file
    Workers,    \* size of the worker semaphore
    Warm,       \* may the vector index be opened before listening, as bin/brain/serve.go:37
                \* does and `ann api` does not: the set of choices of a start
    AnnOn,      \* vector.ann.enabled, or forced on by `ann api`
    MaxKills,   \* bound on deaths of the process
    MaxOpenFaults, \* bound on reopens that fail although nobody holds the file
    MaxForeign  \* bound on handles taken by other processes

ASSUME ServeAssumption ==
    /\ Nobody \notin Reqs /\ IsFiniteSet(Reqs)
    /\ Leafs \cap Edges = {} /\ Ends \in [Edges -> SUBSET Leafs]
    /\ IndexIds \subseteq Leafs
    /\ Workers \in Nat \ {0}
    /\ Warm \subseteq BOOLEAN /\ AnnOn \in BOOLEAN
    /\ MaxKills \in Nat /\ MaxOpenFaults \in Nat /\ MaxForeign \in Nat

INSTANCE RWMutex WITH Procs <- Reqs

VARIABLES
    up,        \* is the process running
    disk,      \* leafs and edges committed to kb.lbug
    conn,      \* the package's read handle: open, and the data it sees
    wconn,     \* the request whose private writable handle is open
    foreign,   \* does another process hold kb.lbug
    brainMu, annMu,   \* the two sync.RWMutex
    ingestMu,  \* holder of the sync.Mutex
    ann,       \* annIdx and annOpen: what the index was opened to
    pc, kind, item,   \* per request: step, operation, item to write
    got,       \* per request: what it read
    left, hit, \* per request: index hits still to be looked up, was one found
    out,       \* per request: how it ended
    base,      \* per request: writes acknowledged before it was sent
    acked,     \* acknowledged writes
    kills, openFaults, foreigns   \* what the bounds count

locks == <<brainMu, annMu, ingestMu>>
store == <<disk, conn, wconn, foreign>>
local == <<kind, item, got, left, hit, out, base, acked>>
bounds == <<kills, openFaults, foreigns>>
vars == <<up, store, locks, ann, pc, local, bounds>>

Items == Leafs \cup Edges
Reads == {"search", "read", "stats"}
Writes == {"ingest", "addedge"}
Handle == [open : BOOLEAN, view : SUBSET Items]
Closed == [open |-> FALSE, view |-> {}]
Opened(d) == [open |-> TRUE, view |-> d]

Unopened == [st |-> "unopened", ids |-> {}]
Indexes == [st : {"unopened", "loaded", "failed"}, ids : SUBSET Leafs]
\* ann.Open: the file's rows, no rows when it is missing, an error when corrupt.
OpenOutcomes == {[st |-> "loaded", ids |-> IndexIds], [st |-> "loaded", ids |-> {}],
                 [st |-> "failed", ids |-> {}]}

\* The index when the process starts to listen.
AtStart == UNION {IF w /\ AnnOn THEN OpenOutcomes ELSE {Unopened} : w \in Warm}

Waiting == {"slot"}
Ended == {"new", "done"}
InFlight == {r \in Reqs : pc[r] \notin Waiting \cup Ended}

-----------------------------------------------------------------------------
Init ==
    /\ up = TRUE /\ disk \in SUBSET Leafs
    /\ conn = Opened(disk) /\ wconn = Nobody /\ foreign = FALSE
    /\ brainMu = Unlocked /\ annMu = Unlocked /\ ingestMu = Nobody
    /\ ann \in AtStart
    /\ pc = [r \in Reqs |-> "new"]
    /\ kind = [r \in Reqs |-> "read"] /\ item = [r \in Reqs |-> {}]
    /\ got = [r \in Reqs |-> {}] /\ left = [r \in Reqs |-> {}] /\ hit = [r \in Reqs |-> FALSE]
    /\ out = [r \in Reqs |-> "none"]
    /\ base = [r \in Reqs |-> {}] /\ acked = {}
    /\ kills = 0 /\ openFaults = 0 /\ foreigns = 0

Goto(r, l) == pc' = [pc EXCEPT ![r] = l]
Return(r, o) == Goto(r, "done") /\ out' = [out EXCEPT ![r] = o]

First(k) == CASE k = "search" -> "fts" [] k = "read" -> "get" [] k = "stats" -> "stats"
              [] k = "ingest" -> "embed" [] k = "addedge" -> "ingestMu"

\* A client sends a request; a write names what it writes.
Arrive(r, k, S) ==
    /\ up /\ pc[r] = "new"
    /\ S \in CASE k = "ingest" -> {{l} : l \in Leafs}
               [] k = "addedge" -> {{e} : e \in Edges}
               [] OTHER -> {{}}
    /\ Goto(r, "slot")
    /\ kind' = [kind EXCEPT ![r] = k] /\ item' = [item EXCEPT ![r] = S]
    /\ base' = [base EXCEPT ![r] = acked]
    /\ UNCHANGED <<up, store, locks, ann, got, left, hit, out, acked, bounds>>

Acquire(r) ==
    /\ pc[r] = "slot" /\ Cardinality(InFlight) < Workers
    /\ Goto(r, First(kind[r]))
    /\ UNCHANGED <<up, store, locks, ann, local, bounds>>

\* The client goes away before a worker is free.
Cancel(r) ==
    /\ pc[r] = "slot"
    /\ Return(r, "cancelled")
    /\ UNCHANGED <<up, store, locks, ann, kind, item, got, left, hit, base, acked, bounds>>

-----------------------------------------------------------------------------
(* Reading under brainMu: one action takes the read lock, the next runs the *)
(* query and lets go.                                                       *)

RLockBrain(r, at, held) ==
    /\ pc[r] = at /\ CanRLock(brainMu)
    /\ brainMu' = RLocked(brainMu, r)
    /\ Goto(r, held)
    /\ UNCHANGED <<up, store, annMu, ingestMu, ann, local, bounds>>

\* queryFTS does not test conn: a nil handle is a panic, which net/http recovers
\* after the deferred unlock.
FtsBegin(r) == RLockBrain(r, "fts", "ftsHeld")
FtsQuery(r) ==
    /\ pc[r] = "ftsHeld"
    /\ brainMu' = RUnlocked(brainMu, r)
    /\ \/ /\ conn.open
          /\ got' = [got EXCEPT ![r] = conn.view]
          /\ Goto(r, "enabled") /\ UNCHANGED out
       \/ /\ conn.open
          /\ Return(r, "error") /\ UNCHANGED got
       \/ /\ ~conn.open
          /\ Return(r, "panic") /\ UNCHANGED got
    /\ UNCHANGED <<up, store, annMu, ingestMu, ann, kind, item, left, hit, base, acked, bounds>>

AnnEnabled(r) ==
    /\ pc[r] = "enabled" /\ CanRLock(annMu)
    /\ Goto(r, IF AnnOn THEN "idx" ELSE "scan")
    /\ UNCHANGED <<up, store, locks, ann, local, bounds>>

\* annQueryVector after annIndex returned i: look the hits up, or scan.
UseIndex(r, i) ==
    IF i.ids = {}
      THEN Goto(r, "scan") /\ UNCHANGED left
      ELSE Goto(r, "lookup") /\ left' = [left EXCEPT ![r] = i.ids]

\* annIndex, fast path: the cached index or the sticky error, else annEnabled
\* is asked again with the read lock held.
AnnCached(r) ==
    /\ pc[r] = "idx" /\ CanRLock(annMu)
    /\ IF ann # Unopened
         THEN UseIndex(r, ann) /\ UNCHANGED annMu
         ELSE annMu' = RLocked(annMu, r) /\ Goto(r, "idxHeld") /\ UNCHANGED left
    /\ UNCHANGED <<up, store, brainMu, ingestMu, ann, kind, item, got, hit, out, base, acked, bounds>>

AnnRecheck(r) ==
    /\ pc[r] = "idxHeld" /\ CanRLock(annMu)
    /\ annMu' = RUnlocked(annMu, r)
    /\ Goto(r, "idxWant")
    /\ UNCHANGED <<up, store, brainMu, ingestMu, ann, local, bounds>>

AnnAnnounce(r) ==
    /\ pc[r] = "idxWant" /\ CanAnnounce(annMu)
    /\ annMu' = Announced(annMu, r)
    /\ Goto(r, "idxPend")
    /\ UNCHANGED <<up, store, brainMu, ingestMu, ann, local, bounds>>

AnnOpen(r) ==
    /\ pc[r] = "idxPend" /\ CanLock(annMu, r)
    /\ annMu' = WUnlocked(Locked(annMu, r))
    /\ IF ann = Unopened THEN ann' \in OpenOutcomes ELSE UNCHANGED ann
    /\ UseIndex(r, ann')
    /\ UNCHANGED <<up, store, brainMu, ingestMu, kind, item, got, hit, out, base, acked, bounds>>

\* leafHitByID: an id without leaf, or a closed handle, is skipped.  Without a
\* single hit the scan is the fallback.
Lookup(r, l) ==
    /\ pc[r] = "lookup" /\ l \in left[r] /\ CanRLock(brainMu)
    /\ left' = [left EXCEPT ![r] = @ \ {l}]
    /\ got' = [got EXCEPT ![r] = IF conn.open THEN @ \cup ({l} \cap conn.view) ELSE @]
    /\ hit' = [hit EXCEPT ![r] = @ \/ (conn.open /\ l \in conn.view)]
    /\ UNCHANGED <<up, store, locks, ann, pc, kind, item, out, base, acked, bounds>>

\* Mutant: without a hit the index is asked again instead of the scan.
LookupEndRetries(r) ==
    /\ pc[r] = "lookup" /\ left[r] = {}
    /\ IF hit[r] THEN Return(r, "ok") ELSE Goto(r, "idx") /\ UNCHANGED out
    /\ UNCHANGED <<up, store, locks, ann, kind, item, got, left, hit, base, acked, bounds>>

LookupEnd(r) ==
    /\ pc[r] = "lookup" /\ left[r] = {}
    /\ IF hit[r] THEN Return(r, "ok") ELSE Goto(r, "scan") /\ UNCHANGED out
    /\ UNCHANGED <<up, store, locks, ann, kind, item, got, left, hit, base, acked, bounds>>

ScanBegin(r) == RLockBrain(r, "scan", "scanHeld")
\* A failed scan is logged and the text hits are returned; a nil handle panics.
ScanQuery(r) ==
    /\ pc[r] = "scanHeld"
    /\ brainMu' = RUnlocked(brainMu, r)
    /\ Return(r, IF conn.open THEN "ok" ELSE "panic")
    /\ \/ got' = [got EXCEPT ![r] = @ \cup (conn.view \cap Leafs)]
       \/ UNCHANGED got
    /\ UNCHANGED <<up, store, annMu, ingestMu, ann, kind, item, left, hit, base, acked, bounds>>

\* Get, Audit, Leafs, Edges, Path.
GetBegin(r) == RLockBrain(r, "get", "getHeld")
GetQuery(r) ==
    /\ pc[r] = "getHeld"
    /\ brainMu' = RUnlocked(brainMu, r)
    /\ Return(r, IF conn.open THEN "ok" ELSE "error")
    /\ got' = [got EXCEPT ![r] = conn.view]
    /\ UNCHANGED <<up, store, annMu, ingestMu, ann, kind, item, left, hit, base, acked, bounds>>

\* Stats asks annStatsJSON, which takes annMu, while it holds brainMu.
StatsBegin(r) == RLockBrain(r, "stats", "statsHeld")
StatsQuery(r) ==
    /\ pc[r] = "statsHeld" /\ (conn.open => CanRLock(annMu))
    /\ brainMu' = RUnlocked(brainMu, r)
    /\ Return(r, IF conn.open THEN "ok" ELSE "error")
    /\ got' = [got EXCEPT ![r] = conn.view]
    /\ UNCHANGED <<up, store, annMu, ingestMu, ann, kind, item, left, hit, base, acked, bounds>>

-----------------------------------------------------------------------------
(* Writing: ingestMu, then brainMu exclusively, then close, open writable,  *)
(* write, close, reopen; the deferred unlocks come last.                    *)

Embed(r) ==
    /\ pc[r] = "embed"
    /\ \/ Goto(r, "ingestMu") /\ UNCHANGED out
       \/ Return(r, "error")
    /\ UNCHANGED <<up, store, locks, ann, kind, item, got, left, hit, base, acked, bounds>>

LockIngest(r) ==
    /\ pc[r] = "ingestMu" /\ ingestMu = Nobody
    /\ ingestMu' = r
    /\ Goto(r, "wWant")
    /\ UNCHANGED <<up, store, brainMu, annMu, ann, local, bounds>>

AnnounceBrain(r) ==
    /\ pc[r] = "wWant" /\ CanAnnounce(brainMu)
    /\ brainMu' = Announced(brainMu, r)
    /\ Goto(r, "wPend")
    /\ UNCHANGED <<up, store, annMu, ingestMu, ann, local, bounds>>

\* Mutant: the writer does not wait for the readers that are in.
LockBrainNoDrain(r) ==
    /\ pc[r] = "wPend" /\ brainMu.pending = r
    /\ brainMu' = Locked(brainMu, r)
    /\ Goto(r, "wClose")
    /\ UNCHANGED <<up, store, annMu, ingestMu, ann, local, bounds>>

LockBrain(r) ==
    /\ pc[r] = "wPend" /\ CanLock(brainMu, r)
    /\ brainMu' = Locked(brainMu, r)
    /\ Goto(r, "wClose")
    /\ UNCHANGED <<up, store, annMu, ingestMu, ann, local, bounds>>

\* Mutant: the read handle stays open during the write.
CloseReadSkipped(r) ==
    /\ pc[r] = "wClose"
    /\ Goto(r, "wOpen")
    /\ UNCHANGED <<up, store, locks, ann, local, bounds>>

CloseRead(r) ==
    /\ pc[r] = "wClose"
    /\ conn' = Closed
    /\ Goto(r, "wOpen")
    /\ UNCHANGED <<up, disk, wconn, foreign, locks, ann, local, bounds>>

\* Mutant: a failed open returns without the reopen of the read handle.
OpenWritableNoRestore(r) ==
    /\ pc[r] = "wOpen"
    /\ \/ /\ ~foreign
          /\ wconn' = r
          /\ Goto(r, "wAdd") /\ UNCHANGED <<brainMu, ingestMu, out>>
       \/ /\ Return(r, "error")
          /\ brainMu' = WUnlocked(brainMu) /\ ingestMu' = Nobody
          /\ UNCHANGED wconn
    /\ UNCHANGED <<up, disk, conn, foreign, annMu, ann, kind, item, got, left, hit, base, acked, bounds>>

\* OpenWritable fails when another process holds the file, or an extension
\* does not load.
OpenWritable(r) ==
    /\ pc[r] = "wOpen"
    /\ \/ /\ ~foreign
          /\ wconn' = r
          /\ Goto(r, "wAdd") /\ UNCHANGED out
       \/ /\ Goto(r, "wReopen") /\ out' = [out EXCEPT ![r] = "error"]
          /\ UNCHANGED wconn
    /\ UNCHANGED <<up, disk, conn, foreign, locks, ann, kind, item, got, left, hit, base, acked, bounds>>

\* An edge is merged only between leafs that exist.
Written(S) == (S \cap Leafs) \cup {e \in S \cap Edges : Ends[e] \subseteq disk}

\* InitSchema, then AddLeafs (one transaction) or the MERGE of the edge.
AddLeafs(r) ==
    /\ pc[r] = "wAdd"
    /\ \/ /\ disk' = disk \cup Written(item[r])
          /\ Goto(r, "wIndex") /\ UNCHANGED out
       \/ /\ Goto(r, "wDone") /\ out' = [out EXCEPT ![r] = "error"]
          /\ UNCHANGED disk
    /\ UNCHANGED <<up, conn, wconn, foreign, locks, ann, kind, item, got, left, hit, base, acked, bounds>>

\* EnsureIndexes may fail after the commit.
EnsureIndexes(r) ==
    /\ pc[r] = "wIndex"
    /\ Goto(r, "wDone")
    /\ \E o \in {"ok", "error"} : out' = [out EXCEPT ![r] = o]
    /\ UNCHANGED <<up, store, locks, ann, kind, item, got, left, hit, base, acked, bounds>>

CloseWrite(r) ==
    /\ pc[r] = "wDone"
    /\ wconn' = Nobody
    /\ Goto(r, "wReopen")
    /\ UNCHANGED <<up, disk, conn, foreign, locks, ann, local, bounds>>

\* Whoever holds the file now makes the reopen fail; so may the buffer pool or
\* an extension that does not load.
ReopenRead(d) ==
    \/ ~foreign /\ conn' = Opened(d) /\ UNCHANGED openFaults
    \/ foreign /\ conn' = Closed /\ UNCHANGED openFaults
    \/ /\ openFaults < MaxOpenFaults /\ openFaults' = openFaults + 1
       /\ conn' = Closed

\* Mutant: the read handle is reopened before the writable one is closed and
\* sees the data from before the write.
ReopenStale(r) ==
    /\ pc[r] = "wReopen"
    /\ ReopenRead(disk \ item[r])
    /\ brainMu' = WUnlocked(brainMu) /\ ingestMu' = Nobody
    /\ Goto(r, "done")
    /\ acked' = IF out[r] = "ok" THEN acked \cup (item[r] \cap disk) ELSE acked
    /\ UNCHANGED <<up, disk, wconn, foreign, annMu, ann, kind, item, got, left, hit, out, base, kills, foreigns>>

\* refreshBrainLocked, its error ignored, and the two unlocks.
Reopen(r) ==
    /\ pc[r] = "wReopen"
    /\ ReopenRead(disk)
    /\ brainMu' = WUnlocked(brainMu) /\ ingestMu' = Nobody
    /\ Goto(r, "done")
    /\ acked' = IF out[r] = "ok" THEN acked \cup (item[r] \cap disk) ELSE acked
    /\ UNCHANGED <<up, disk, wconn, foreign, annMu, ann, kind, item, got, left, hit, out, base, kills, foreigns>>

-----------------------------------------------------------------------------
(* The process and its environment. *)

\* The process dies: handles and locks go with it, unfinished requests get no
\* answer, an open transaction is rolled back by the next open.
Kill ==
    /\ up /\ kills < MaxKills /\ kills' = kills + 1
    /\ up' = FALSE /\ conn' = Closed /\ wconn' = Nobody
    /\ brainMu' = Unlocked /\ annMu' = Unlocked /\ ingestMu' = Nobody
    /\ ann' = Unopened
    /\ pc' = [r \in Reqs |-> IF pc[r] = "new" THEN "new" ELSE "done"]
    /\ out' = [r \in Reqs |-> IF pc[r] \in Ended THEN out[r] ELSE "dropped"]
    /\ UNCHANGED <<disk, foreign, kind, item, got, left, hit, base, acked, openFaults, foreigns>>

\* Ready fails while another process holds the file; the supervisor retries.
Boot ==
    /\ ~up /\ ~foreign
    /\ up' = TRUE /\ conn' = Opened(disk)
    /\ ann' \in AtStart
    /\ UNCHANGED <<disk, wconn, foreign, locks, pc, local, bounds>>

ForeignOpen ==
    /\ foreigns < MaxForeign /\ foreigns' = foreigns + 1
    /\ ~foreign /\ ~conn.open /\ wconn = Nobody
    /\ foreign' = TRUE
    /\ UNCHANGED <<up, disk, conn, wconn, locks, ann, pc, local, kills, openFaults>>

ForeignClose(S) ==
    /\ foreign
    /\ foreign' = FALSE /\ disk' = disk \cup S
    /\ UNCHANGED <<up, conn, wconn, locks, ann, pc, local, bounds>>

-----------------------------------------------------------------------------
Search(r) ==
    \/ FtsBegin(r) \/ FtsQuery(r) \/ AnnEnabled(r)
    \/ AnnCached(r) \/ AnnRecheck(r) \/ AnnAnnounce(r) \/ AnnOpen(r)
    \/ \E l \in Leafs : Lookup(r, l)
    \/ LookupEnd(r) \/ ScanBegin(r) \/ ScanQuery(r)
Read(r) == GetBegin(r) \/ GetQuery(r) \/ StatsBegin(r) \/ StatsQuery(r)
Write(r) ==
    \/ Embed(r) \/ LockIngest(r) \/ AnnounceBrain(r) \/ LockBrain(r)
    \/ CloseRead(r) \/ OpenWritable(r) \/ AddLeafs(r) \/ EnsureIndexes(r)
    \/ CloseWrite(r) \/ Reopen(r)
Serve(r) == Acquire(r) \/ Search(r) \/ Read(r) \/ Write(r)

Send(r) == \E k \in Reads \cup Writes, S \in SUBSET Items : Arrive(r, k, S)
ForeignWrite == \E S \in {{}} \cup {{l} : l \in Leafs} : ForeignClose(S)

\* Every request has been answered.
AllAnswered == up /\ (\A r \in Reqs : pc[r] = "done") /\ UNCHANGED vars

Next ==
    \/ \E r \in Reqs : Send(r) \/ Cancel(r) \/ Serve(r)
    \/ Kill \/ Boot \/ ForeignOpen \/ ForeignWrite
    \/ AllAnswered

Spec == Init /\ [][Next]_vars

\* The Go scheduler runs every goroutine that can run, the supervisor starts a
\* process that ended, and other processes finish what they do to the file.
Fairness ==
    /\ \A r \in Reqs : WF_vars(Serve(r))
    /\ WF_vars(Boot) /\ WF_vars(ForeignWrite)
FairSpec == Spec /\ Fairness

-----------------------------------------------------------------------------
(* Properties. *)

Steps == {"new", "slot", "done", "fts", "ftsHeld", "enabled", "idx", "idxHeld",
          "idxWant", "idxPend", "lookup", "scan", "scanHeld", "get", "getHeld",
          "stats", "statsHeld", "embed", "ingestMu", "wWant", "wPend", "wClose",
          "wOpen", "wAdd", "wIndex", "wDone", "wReopen"}
Outcomes == {"none", "ok", "error", "panic", "cancelled", "dropped"}

TypeOK ==
    /\ up \in BOOLEAN /\ disk \in SUBSET Items
    /\ conn \in Handle /\ wconn \in Reqs \cup {Nobody} /\ foreign \in BOOLEAN
    /\ brainMu \in RWMutexes /\ annMu \in RWMutexes /\ ingestMu \in Reqs \cup {Nobody}
    /\ ann \in Indexes
    /\ pc \in [Reqs -> Steps] /\ kind \in [Reqs -> Reads \cup Writes]
    /\ item \in [Reqs -> SUBSET Items] /\ got \in [Reqs -> SUBSET Items]
    /\ left \in [Reqs -> SUBSET Leafs] /\ hit \in [Reqs -> BOOLEAN]
    /\ out \in [Reqs -> Outcomes]
    /\ base \in [Reqs -> SUBSET Items] /\ acked \in SUBSET Items
    /\ kills \in Nat /\ openFaults \in Nat /\ foreigns \in Nat

\* kb.lbug is never opened twice: not by the read and the write handle of this
\* process, not by this process and another one (Ladybug dies silently if it is).
OneHandle ==
    /\ conn.open => wconn = Nobody
    /\ foreign => ~conn.open /\ wconn = Nobody

\* The read handle is never closed or replaced while a request of the same
\* process reads through it (C use-after-close).
NoUseAfterClose ==
    [][(up /\ up' /\ conn' # conn) => NoReader(brainMu)]_vars

\* The index is opened once in the life of the process: of several requests
\* that found it unopened, one opens it and the others use what it opened.
OpenedOnce == [][(up /\ up' /\ ann # Unopened) => ann' = ann]_vars

\* A read that succeeds has seen every write acknowledged before it was sent,
\* whatever writes, restarts and other processes came in between.
ReadYourIngest ==
    \A r \in Reqs :
        (pc[r] = "done" /\ out[r] = "ok" /\ kind[r] \in Reads) => base[r] \subseteq got[r]

\* While the process serves and no write is under way, the read handle is open:
\* every exit path of a write restores it.  Only a process that takes the file
\* between close and reopen, or a reopen that fails by itself, leaves it closed,
\* which Reopen does not report (http.go:249).
HandleRestored ==
    (up /\ brainMu.writer = Nobody /\ foreigns = 0 /\ openFaults = 0) => conn.open

\* A request that was sent ends: answered, or dropped with the process.
EveryRequestEnds == \A r \in Reqs : pc[r] = "slot" ~> pc[r] = "done"
=============================================================================

---------------------------- MODULE CorpusWrite ----------------------------
(***************************************************************************)
(* The programs that turn a corpus into leafs of kb.lbug: brain-index      *)
(* (--rebuild or --skip), mail-leaf / doc-leaf and brain-import-git, all   *)
(* on WriteCorpusChunked / WriteCorpus of internal/brain.                  *)
(*                                                                         *)
(* A leaf is its ContentHash.  A corpus is a sequence of files, each of    *)
(* one adapter of internal/corpus; a stream is the sequence of leafs the   *)
(* adapters emit, duplicates included.  A chunk is embedded by a pool of   *)
(* workers, upserted in batches of one transaction each, and every leaf of *)
(* a committed batch is then linked to its file, outside the transaction.  *)
(***************************************************************************)
EXTENDS Integers, FiniteSets, Sequences, SequencesExt

CONSTANTS
    Keys,       \* content hashes
    Blank,      \* those of a text that normalizes to nothing: UpsertLeaf refuses
    FactKeys,   \* leafs of --with-facts / --facts-json
    Corpora,    \* corpora: sequences of [kind, leafs, bad: unreadable, dir: a directory]
    Commands,   \* command lines: [tool, skip, limit, model]
    Chunk,      \* --chunk  (2048)
    Batch,      \* --batch  (64)
    Workers,    \* --workers (4)
    MaxRuns, MaxFaults   \* bounds on runs and on failures and deaths

ASSUME CorpusAssumption ==
    /\ IsFiniteSet(Keys) /\ Blank \subseteq Keys /\ FactKeys \subseteq Keys
    /\ {Chunk, Batch, Workers} \subseteq Nat \ {0}
    /\ {MaxRuns, MaxFaults} \subseteq Nat
    /\ Commands \subseteq [tool : {"index", "leaf", "git"}, skip : BOOLEAN,
                           limit : Nat, model : BOOLEAN]

VARIABLES
    corpus,   \* the files as they are now
    kb,       \* the database: leafs, their embeddings, FROM_FILE links, FTS index
    served,   \* another process has kb.lbug open: "no", "live", or "stale" when
              \* the file it holds has been removed
    cmd, pc,  \* the running command and its step
    total,    \* pass 1: unique leafs counted
    same,     \* the files have not changed between the two passes
    input,    \* pass 2: leafs still to be streamed
    fails,    \* does the stream end in an error
    streamed, seen,     \* leafCounter
    existing,           \* the resume set
    buf,      \* the chunk
    slot,     \* per leaf of the chunk: "todo", "busy", "ok" or "err"
    result,   \* per leaf of the chunk: the leaf whose embedding is in its slot
    next,     \* first leaf of the chunk not yet upserted
    unlinked, \* leafs of the batch just committed that are not linked yet
    written,  \* leafs written by this run
    runs, faults

chunkState == <<buf, slot, result, next, unlinked>>
passState == <<total, same, input, fails, streamed, seen, existing, written>>
corpusVars == <<corpus, kb, served, cmd, pc, passState, chunkState, runs, faults>>

NoEmb == "none"
NoKb == [file |-> FALSE, leafs |-> {}, emb |-> [k \in Keys |-> NoEmb],
         linked |-> {}, fts |-> "none"]

-----------------------------------------------------------------------------
(* The adapters.  An unreadable file of docs, mail or chats and a repository *)
(* without history yield nothing; a gator hive with an unreadable row and a  *)
(* directory of docs, chats or repositories that cannot be listed end the    *)
(* stream.  Mail and the hives drop leafs without text; docs do not.         *)

Kinds == {"docs", "mail", "chats", "git", "gator"}

IsText(k) == k \notin Blank
Docs(f) == f.leafs
Mail(f) == SelectSeq(f.leafs, IsText)
ChatLeafs(f) == f.leafs
Git(f) == f.leafs
GatorMail(f) == SelectSeq(f.leafs, IsText)

Emitted(f) ==
    CASE f.bad -> <<>>
      [] f.kind = "docs"  -> Docs(f)
      [] f.kind = "mail"  -> Mail(f)
      [] f.kind = "chats" -> ChatLeafs(f)
      [] f.kind = "git"   -> Git(f)
      [] f.kind = "gator" -> GatorMail(f)

\* sources: the adapters of a program.
SourcesOf(tool) ==
    CASE tool = "index" -> {"docs", "mail", "chats", "git"}
      [] tool = "leaf"  -> {"gator"}
      [] tool = "git"   -> {"git"}

Files(c, tool) == SelectSeq(c, LAMBDA f : f.kind \in SourcesOf(tool))

EndsStream(f) == f.bad /\ (f.kind = "gator" \/ (f.dir /\ f.kind # "mail"))
StreamFails(c, tool) == \E i \in DOMAIN Files(c, tool) : EndsStream(Files(c, tool)[i])

\* What is emitted until the stream ends or fails.
Stream(c, tool) ==
    LET fs == Files(c, tool)
        ok == {n \in 0..Len(fs) : \A i \in 1..n : ~EndsStream(fs[i])}
        n  == CHOOSE m \in ok : \A o \in ok : o <= m
    IN FlattenSeq([i \in 1..n |-> Emitted(fs[i])])

ASSUME AdaptersEmitLeafs ==
    \A c \in Corpora, tool \in {"index", "leaf", "git"} : Stream(c, tool) \in Seq(Keys)

\* CountCorpus: unique leafs among the first `limit` streamed.
CountCorpus(s, limit) ==
    LET n == IF limit > 0 /\ limit < Len(s) THEN limit ELSE Len(s) IN Cardinality({s[i] : i \in 1..n})

\* factsFromJSON: facts without text are dropped.
FactsFromJSON == {k \in FactKeys : IsText(k)}

-----------------------------------------------------------------------------
(* kb.lbug. *)

\* LiveHolders / BrainAPIAlive: a holder may be invisible to both probes.
LiveHolders == IF served = "live" THEN BOOLEAN ELSE {FALSE}

\* OpenWritable: the database locks its file.
OpenWritable == served # "live"

\* UpsertLeaf merges by content hash, the last one wins; an embedding is only ever
\* set.  AddLeafs: one transaction.
AddLeafs(db, batch) ==
    LET given(k) == {i \in batch : buf[i] = k /\ result[i] # NoEmb}
        last(k) == CHOOSE i \in given(k) : \A j \in given(k) : j <= i
    IN [db EXCEPT !.leafs = @ \cup {buf[i] : i \in batch},
                  !.emb = [k \in Keys |-> IF given(k) = {} THEN @[k] ELSE result[last(k)]]]

\* ExistingLeafIDSet, read once before the first chunk.
ExistingLeafIDSet == IF cmd.skip THEN kb.leafs ELSE {}

-----------------------------------------------------------------------------
CorpusInit ==
    /\ corpus \in Corpora
    /\ kb = NoKb /\ served = "no"
    /\ cmd \in Commands /\ pc = "idle"
    /\ total = 0 /\ same = FALSE /\ input = <<>> /\ fails = FALSE
    /\ streamed = 0 /\ seen = {} /\ existing = {}
    /\ buf = <<>> /\ slot = <<>> /\ result = <<>> /\ next = 1 /\ unlinked = <<>>
    /\ written = 0
    /\ runs = 0 /\ faults = 0

\* Files are added, changed or removed by the syncs at any time.
CorpusChanges ==
    /\ corpus' \in Corpora \ {corpus}
    /\ same' = (same /\ pc \notin {"count", "check", "remove", "open"})
    /\ UNCHANGED <<kb, served, cmd, pc, total, input, fails, streamed, seen, existing, written,
                   chunkState, runs, faults>>

\* brain-serve starts or stops; it takes the file's lock, unless a program has
\* it.  brain-index closes the database before it builds the indexes.
ServeChanges ==
    /\ \/ /\ served = "no" /\ kb.file
          /\ pc \in {"idle", "count", "check", "remove"} \cup (IF cmd.tool = "index" THEN {"fts"} ELSE {})
          /\ served' = "live"
       \/ served # "no" /\ served' = "no"
    /\ UNCHANGED <<corpus, kb, cmd, pc, passState, chunkState, runs, faults>>

\* A command line is given; brain-index counts first.
Start(c) ==
    /\ pc = "idle" /\ runs < MaxRuns
    /\ runs' = runs + 1 /\ cmd' = c
    /\ pc' = IF c.tool = "index" THEN "count"
             ELSE IF c.tool = "leaf" THEN "check" ELSE "open"
    /\ streamed' = 0 /\ seen' = {} /\ existing' = {} /\ written' = 0
    /\ buf' = <<>> /\ slot' = <<>> /\ result' = <<>> /\ next' = 1 /\ unlinked' = <<>>
    /\ total' = 0 /\ same' = FALSE /\ input' = <<>> /\ fails' = FALSE
    /\ UNCHANGED <<corpus, kb, served, faults>>

\* The program exits, with an error or not; what it held in memory is gone.
Exit == pc' = "idle" /\ UNCHANGED <<cmd, passState, chunkState, runs>>

Fault == faults < MaxFaults /\ faults' = faults + 1

Count ==
    /\ pc = "count"
    /\ same' = TRUE /\ total' = CountCorpus(Stream(corpus, "index"), cmd.limit)
    /\ pc' = "check"
    /\ UNCHANGED <<corpus, kb, served, cmd, input, fails, streamed, seen, existing, written,
                   chunkState, runs, faults>>

\* Live holders make brain-index --rebuild and the leaf importers refuse.
Check ==
    /\ pc = "check"
    /\ IF cmd.tool = "index" /\ cmd.skip
         THEN pc' = "open" /\ UNCHANGED <<cmd, passState, chunkState, runs>>
         ELSE \/ TRUE \in LiveHolders /\ Exit
              \/ /\ FALSE \in LiveHolders
                 /\ pc' = IF cmd.tool = "index" THEN "remove" ELSE "open"
                 /\ UNCHANGED <<cmd, passState, chunkState, runs>>
    /\ UNCHANGED <<corpus, kb, served, faults>>

RemoveDb ==
    /\ pc = "remove"
    /\ kb' = NoKb /\ pc' = "open"
    /\ served' = IF served = "live" THEN "stale" ELSE served
    /\ UNCHANGED <<corpus, cmd, passState, chunkState, runs, faults>>

\* The lock of a live holder fails OpenWritable.  The resume set is read once.
Open ==
    /\ pc = "open"
    /\ \/ ~OpenWritable /\ Exit /\ UNCHANGED kb
       \/ /\ OpenWritable
          /\ kb' = [kb EXCEPT !.file = TRUE]
          /\ existing' = ExistingLeafIDSet
          /\ input' = Stream(corpus, cmd.tool) /\ fails' = StreamFails(corpus, cmd.tool)
          /\ pc' = "stream"
          /\ UNCHANGED <<cmd, total, same, streamed, seen, written, chunkState, runs>>
    /\ UNCHANGED <<corpus, served, faults>>

\* import-git collects everything before it writes and does not deduplicate.
Dedups == cmd.tool # "git"
ChunkFull(b) == Dedups /\ Len(b) >= Chunk
LimitReached == cmd.limit > 0 /\ streamed >= cmd.limit

\* leafCounter.add and emit.
Emit ==
    /\ pc = "stream" /\ input # <<>> /\ ~LimitReached
    /\ input' = Tail(input) /\ streamed' = streamed + 1
    /\ seen' = seen \cup {Head(input)}
    /\ buf' = IF Dedups /\ Head(input) \in seen THEN buf ELSE Append(buf, Head(input))
    /\ pc' = IF ChunkFull(buf') THEN "chunk" ELSE "stream"
    /\ UNCHANGED <<corpus, kb, served, cmd, total, same, fails, existing, written,
                   slot, result, next, unlinked, runs, faults>>

\* Mutant: the last, partial chunk is not flushed.
StreamEndNoFlush ==
    /\ pc = "stream" /\ (input = <<>> \/ LimitReached)
    /\ IF fails /\ ~LimitReached
         THEN Exit
         ELSE /\ pc' = "facts"
              /\ UNCHANGED <<cmd, passState, chunkState, runs>>
    /\ UNCHANGED <<corpus, kb, served, faults>>

\* The stream is over: an error drops the open chunk, the limit is no error,
\* and the last, partial chunk is flushed.
StreamEnd ==
    /\ pc = "stream" /\ (input = <<>> \/ LimitReached)
    /\ IF fails /\ ~LimitReached
         THEN Exit
         ELSE /\ pc' = IF buf = <<>> THEN "facts" ELSE "chunk"
              /\ UNCHANGED <<cmd, passState, chunkState, runs>>
    /\ UNCHANGED <<corpus, kb, served, faults>>

-----------------------------------------------------------------------------
(* WriteCorpus. *)

\* The numbers of S in ascending order.
Ascending(S) ==
    {pos \in [1..Cardinality(S) -> S] : /\ \A i \in S : \E j \in DOMAIN pos : pos[j] = i
                                        /\ \A i, j \in DOMAIN pos : i < j => pos[i] < pos[j]}
FilterExistingLeafs(leafs) ==
    {[j \in DOMAIN pos |-> leafs[pos[j]]] : pos \in Ascending({i \in DOMAIN leafs : leafs[i] \notin existing})}

\* With --skip what exists is dropped; one slot per leaf that is left.
BeginChunk ==
    /\ pc = "chunk"
    /\ buf' \in IF cmd.skip THEN FilterExistingLeafs(buf) ELSE {buf}
    /\ slot' = [i \in DOMAIN buf' |-> "todo"]
    /\ result' = [i \in DOMAIN buf' |-> NoEmb]
    /\ next' = 1 /\ unlinked' = <<>>
    /\ pc' = "embed"
    /\ UNCHANGED <<corpus, kb, served, cmd, passState, runs, faults>>

Busy == {i \in DOMAIN slot : slot[i] = "busy"}

\* Jobs are fed in order to whichever worker is free ...
Feed(i) ==
    /\ pc = "embed" /\ slot[i] = "todo"
    /\ \A j \in 1..(i - 1) : slot[j] # "todo"
    /\ Cardinality(Busy) < Workers
    /\ slot' = [slot EXCEPT ![i] = "busy"]
    /\ UNCHANGED <<corpus, kb, served, cmd, pc, passState, buf, result, next, unlinked,
                   runs, faults>>

\* ... and finish in any order, each into its own slot.  Without a model there is
\* no embedding.
Embedded(i) ==
    /\ pc = "embed" /\ slot[i] = "busy"
    /\ \/ /\ slot' = [slot EXCEPT ![i] = "ok"]
          /\ result' = [result EXCEPT ![i] = IF cmd.model /\ buf[i] \notin Blank
                                             THEN buf[i] ELSE NoEmb]
          /\ UNCHANGED faults
       \/ /\ cmd.model /\ Fault
          /\ slot' = [slot EXCEPT ![i] = "err"] /\ UNCHANGED result
    /\ UNCHANGED <<corpus, kb, served, cmd, pc, passState, buf, next, unlinked, runs>>

\* One failed embedding fails the run.
Join ==
    /\ pc = "embed" /\ \A i \in DOMAIN slot : slot[i] \in {"ok", "err"}
    /\ IF \E i \in DOMAIN slot : slot[i] = "err"
         THEN Exit
         ELSE pc' = "batch" /\ UNCHANGED <<cmd, passState, chunkState, runs>>
    /\ UNCHANGED <<corpus, kb, served, faults>>

InBatch == next..(IF next + Batch - 1 < Len(buf) THEN next + Batch - 1 ELSE Len(buf))

\* Mutant: the links of a chunk are made when all its batches are in.
CommitBatchLinksLast ==
    /\ pc = "batch" /\ next <= Len(buf)
    /\ \/ /\ \A i \in InBatch : buf[i] \notin Blank
          /\ kb' = [kb EXCEPT !.leafs = @ \cup {buf[i] : i \in InBatch}]
          /\ unlinked' = unlinked \o [j \in 1..Cardinality(InBatch) |-> buf[next + j - 1]]
          /\ next' = next + Cardinality(InBatch)
          /\ pc' = IF next' > Len(buf) THEN "link" ELSE "batch"
          /\ UNCHANGED <<cmd, passState, buf, slot, result, runs, faults>>
       \/ /\ \E i \in InBatch : buf[i] \in Blank
          /\ Exit /\ UNCHANGED <<kb, faults>>
    /\ UNCHANGED <<corpus, served>>

\* AddLeafs: one transaction; a leaf without text or a failing query rolls the
\* batch back and ends the run.  An embedding is only ever set, never removed.
CommitBatch ==
    /\ pc = "batch" /\ next <= Len(buf)
    /\ \/ /\ \A i \in InBatch : buf[i] \notin Blank
          /\ kb' = AddLeafs(kb, InBatch)
          /\ unlinked' = [j \in 1..Cardinality(InBatch) |-> buf[next + j - 1]]
          /\ next' = next + Cardinality(InBatch)
          /\ pc' = "link"
          /\ UNCHANGED <<cmd, passState, buf, slot, result, runs, faults>>
       \/ /\ \E i \in InBatch : buf[i] \in Blank
          /\ Exit /\ UNCHANGED <<kb, faults>>
       \/ Fault /\ Exit /\ UNCHANGED kb
    /\ UNCHANGED <<corpus, served>>

\* LinkFromFile, one leaf after the other.
Link ==
    /\ pc = "link" /\ unlinked # <<>>
    /\ \/ /\ kb' = [kb EXCEPT !.linked = @ \cup {Head(unlinked)}]
          /\ unlinked' = Tail(unlinked) /\ written' = written + 1
          /\ UNCHANGED <<cmd, pc, total, same, input, fails, streamed, seen, existing,
                         buf, slot, result, next, runs, faults>>
       \/ Fault /\ Exit /\ UNCHANGED kb
    /\ UNCHANGED <<corpus, served>>

BatchLinked ==
    /\ pc = "link" /\ unlinked = <<>>
    /\ pc' = "batch"
    /\ UNCHANGED <<corpus, kb, served, cmd, passState, chunkState, runs, faults>>

ChunkDone ==
    /\ pc = "batch" /\ next > Len(buf)
    /\ buf' = <<>> /\ slot' = <<>> /\ result' = <<>> /\ next' = 1 /\ unlinked' = <<>>
    /\ pc' = "stream"
    /\ UNCHANGED <<corpus, kb, served, cmd, passState, runs, faults>>

\* The facts are embedded and upserted one by one, without links.
UpsertFacts(S) ==
    [kb EXCEPT !.leafs = @ \cup S,
               !.emb = [k \in Keys |-> IF k \in S /\ cmd.model THEN k ELSE @[k]]]

FactPass ==
    /\ pc = "facts"
    /\ \/ /\ kb' = IF cmd.tool = "index" THEN UpsertFacts(FactsFromJSON) ELSE kb
          /\ pc' = IF cmd.tool = "leaf" THEN "done" ELSE "fts"
          /\ UNCHANGED <<cmd, passState, chunkState, runs, faults>>
       \/ /\ cmd.tool = "index" /\ Fault /\ Exit
          /\ \E S \in SUBSET FactsFromJSON : kb' = UpsertFacts(S)
    /\ UNCHANGED <<corpus, served>>

\* EnsureIndexes, on the database opened anew by brain-index (BuildIndexes).  A
\* failed CREATE_FTS_INDEX leaves tables that block every retry on this database.
EnsureIndexes ==
    /\ pc = "fts"
    /\ \/ ~OpenWritable /\ Exit /\ UNCHANGED <<kb, faults>>
       \/ /\ OpenWritable /\ kb.fts # "orphan"
          /\ kb' = [kb EXCEPT !.fts = "ok"] /\ pc' = "done"
          /\ UNCHANGED <<cmd, passState, chunkState, runs, faults>>
       \/ /\ OpenWritable /\ kb.fts = "none" /\ Fault /\ Exit
          /\ kb' = [kb EXCEPT !.fts = "orphan"]
       \/ /\ OpenWritable /\ kb.fts = "orphan"
          /\ Exit /\ UNCHANGED <<kb, faults>>
    /\ UNCHANGED <<corpus, served>>

Done ==
    /\ pc = "done"
    /\ Exit
    /\ UNCHANGED <<corpus, kb, served, faults>>

\* The process is killed; an open transaction is rolled back.
Dies ==
    /\ pc \notin {"idle", "done"} /\ Fault
    /\ Exit
    /\ UNCHANGED <<corpus, kb, served>>

Step ==
    \/ Count \/ Check \/ RemoveDb \/ Open \/ Emit \/ StreamEnd
    \/ BeginChunk \/ Join \/ CommitBatch \/ Link \/ BatchLinked \/ ChunkDone
    \/ FactPass \/ EnsureIndexes \/ Done
    \/ \E i \in DOMAIN slot : Feed(i) \/ Embedded(i)

CorpusNext ==
    \/ Step \/ Dies \/ CorpusChanges \/ ServeChanges
    \/ \E c \in Commands : Start(c)

-----------------------------------------------------------------------------
(* Properties. *)

\* "dry-run == the actual write" (corpus_chunk.go:79): what pass 1 counts is what
\* a fresh run writes, with a limit and with duplicates across chunks and sources,
\* if the files did not change in between.
CountIsWritten ==
    pc = "done" /\ cmd.tool = "index" /\ ~cmd.skip /\ same =>
        written = total /\ total = Cardinality(seen)

\* Whatever order the workers finish in, a leaf is stored with the embedding of
\* its own text.
OwnEmbedding == \A k \in Keys : kb.emb[k] \in {NoEmb, k}

\* A run that reports success has stored every leaf it streamed, whether it wrote
\* the leaf itself or a run that was killed half way did (--skip): no chunk, batch
\* or partial last chunk is forgotten, and what is stored is what was counted and
\* what was embedded.
RunIsComplete ==
    /\ pc = "done" => seen \subseteq kb.leafs
    /\ CountIsWritten
    /\ OwnEmbedding

\* Leafs are committed and linked in two steps: what a failed run leaves without
\* its FROM_FILE link is at most one batch, and a success without --skip leaves
\* none of its leafs so.
Unlinked == kb.leafs \ (kb.linked \cup FactKeys)
LinkLoss ==
    /\ Cardinality(Unlinked) <= Batch * (faults + (IF pc = "link" THEN 1 ELSE 0))
    /\ pc = "done" /\ ~cmd.skip => seen \subseteq kb.linked

=============================================================================

# 2dph in TLA+

Models of the parts of 2dph that keep state over time and share it: the vector
index and its tools, the brain serve process, the index sync cycle, the programs
that bring mail, archives, chats and browser pages in, those that write the
database and the facts, and those that carry results out to a CRM.  TLC checks
each on small instances; TLAPS proves the safety properties that hold for every
value of the constants.

## The system

2dph is a personal knowledge base.  Importers bring mail, chats, documents,
contacts and git history into files under `var/`; indexers turn them into a
Ladybug graph database (`kb.lbug`) and a vector index (`var/state/vector.ann`);
a serve process answers searches and takes new leafs over HTTP and MCP.
Everything shares one constraint: `kb.lbug` admits one process and one handle
at a time.

| Component | State it keeps | Operations | What is hard |
|---|---|---|---|
| vector index (`internal/brain/ann`, `anntool.go`) | snapshot, JSON-lines log, in-memory index | build, upsert, ensure, compaction, open with replay | death between two file operations, torn append, corrupt snapshot, staleness threshold |
| brain serve (`internal/brain/http.go`, `db.go`, `annbridge.go`, `search.go`, `synapse.go`, `write.go`, `pkg/httpapi`) | the read handle, the cached index, four locks | search, get, stats, leafs, edges, path, ingest, add edge | writes close the handle under which reads run; lazily opened index; other processes; nested locks |
| index sync, freshness (`internal/indexsync`, `internal/dockerctl`, `freshness.go`) | position in the cycle; the brain container; `index_at`, `last_error`, `pack_mtime` | discover, skip decision, quiesce, import steps, release | failing steps, packs landing meanwhile, death with the brain stopped, comparisons of modification times |
| mail download (`internal/mailsync`) | message directories, delta link per folder | list, pick, fetch, write, attachments, commit | overlapping runs, kills, cancels, partial failures, commit order |
| mail watch (`watch.go`, `internal/mailconv`) | markdown files, state file | fetch, convert, push to `/ingest`, wait | lost answers, death before the state file, refused messages |
| corpus indexing (`corpus*.go`, `internal/corpus`, `bin/brain/index.go`) | pending chunks, batches, links | embed in a pool, write in order, link | workers finishing in any order, failing batch, death between batch and links |
| graph imports (`graph.go`, `gitcommit.go`, `internal/mailgraph`, `internal/gitgraph`) | Message, Person, Commit nodes and edges | merge the hive, upsert batches, skip existing | edges whose other end is not there yet |
| search and ranking (`search.go`, `rank`) | none | candidates, fusion, filters, cut, escalation | what is cut before it is filtered |
| facts (`promotefacts.go`, `internal/facts`, `bin/facts`) | Fact leafs, the cards of a source of truth file | extract, promote, prove, audit | several writers in any order, cards overlaid for want of a lock, interval boundaries |
| stack wave (`bin/stack/sync.go`) | none of its own | stop brain, run all steps, start brain | bounded wait, failing steps and calls, kills |
| chat sync (`internal/chat`) | one file per chat, markdown, facts, the CRM | sync, import, extract, apply | truncated before filled, failing writes, retries and deadlines, chats of one name, half-applied facts, a search that finds what was added |
| etl, runner, sources (`internal/etl`, `internal/source`, `internal/runner`) | checkpoint, three stages with bounded channels | walk, convert, load | seen is saved before done; cancelling; blocked senders; letters that share a directory |
| archive import (`pst.go`, `mbox.go`), incubator (`internal/incubator`) | staging, corpus, manifests, a mailbox that takes duplicates | extract, convert, append | deaths between mailbox and manifest, `--force`, labels that share a directory, letters cut short |
| browser sync, corpus watch (`internal/cron`, `internal/corpuswatch`) | a daemon's position, a stamp | probe, read, push; poll, index | a POST that times out and is taken later; changes during a run |
| canonical store (`internal/canon`) | a file per message, manifest | write waves | ids and paths that coincide |
| document pipeline (`internal/docpipe`) | none | text of a PDF, tables from fragments | thresholds on positions |
| network map, OnlyOffice import (`internal/network`, `internal/ooimport`) | manifest, contacts of a CRM | build links, create, backfill, link companies | three calls per contact, roll-back that may fail, contacts edited or made by hand meanwhile |
| brain client, web search, reasoner, read contract, contacts, converters, config, CLI | caches, formats | call, parse, format | mostly formats |

Who talks to whom: the index sync loop stops the brain container, runs the
importers and indexers on `kb.lbug`, has `ann ensure` bring the vector index up
to date and starts the container again.  Mail watch and browser sync post to the
serve process.  The stack wave does by hand what the loop does.  They meet in
three places: the database file (one holder), the vector index file (written by
`ann`, read by serve) and the freshness file (written by the loop, shown by
`/stats`).  The other programs meet in files: a sync writes what an import reads,
a manifest made by one tool is carried out by another.

## Modules

| Module | Models | State ↔ code |
|---|---|---|
| `AnnStore` | what the vector index promises: durable rows, working rows, and whether a rebuilt index still owes its snapshot | — |
| `AnnIndex` | `ann.go`, `wal.go`, `anntool.go` | `snap`, `wal` the two files; `mem` is `idCell`; `pc` the position of the one tool process; `dirty` the log lines counted towards compaction; `rows` what `extractRows` returned |
| `RWMutex` | Go's `sync.RWMutex` as a value | readers per goroutine, the announced writer, the writer |
| `BrainServe` | `http.go`, `db.go`, `annbridge.go`, the locks of `search.go`, `synapse.go`, `write.go`, the semaphore of `pkg/httpapi/server.go` | `conn` the package's read handle and the data it was opened on; `wconn` the private writable handle; `brainMu`, `annMu`, `ingestMu`; `ann` is `annIdx`/`annOpen`; `pc[r]` the position of the goroutine of request r |
| `IndexSync` | `RunOnce`, `shouldSkip`, `quiesceBrain`, `freshness.go`, the loop | `landed` packs as versions; `kbSeen` what the modification time of `kb.lbug` says; `leaf`, `graph` what was really imported; `fresh` the state file |
| `MailSync` | `Run`, `processOne`, `Retry`, the lists of the four services, the delta state of Microsoft 365 | `file` the parts of a message directory (absent, torn, whole); `link` and `state` the delta file; `job[r][m]` what a worker does with message m |
| `MailWatch` | `Watch`, `FromEML`, `PushNewLeafs`, the state file | `md`, `attMd` markdown on disk; `saved`, `state` the state file and its copy in memory; `brain` what `/ingest` took |
| `CorpusWrite` | the adapters, chunks, embedding pool, batches and links of `corpus*.go`; brain-index, mail-leaf, doc-leaf, brain-import-git | `kb` leafs, embeddings and links in the database; `buf`, `slot` and `result` the chunk, what its workers are at and what they put where |
| `GraphImport` | reading and merging of the hive, mail-graph and git-graph | `hive`, `history` what the collectors produced; `graph` nodes and edges; `readRows` and `inputs` what a run has read and, in order, will write; `tx` the graph a batch has in view, `started` whether that is a transaction |
| `Ranking` | what a sort makes of a set, equal members in any order | used by GraphImport, HybridSearch, DocTables and NetworkExport |
| `HybridSearch` | `searchHits`, `rank.go`, `escalate.go` | `held` the leafs with their places in text index and vectors; `ask` the query |
| `FactStore` | the writers of the facts root and the gate of `brainclient` | `world` what extract and prove-crm look at; the leafs written |
| `FactAudit` | `auditcard.go`, `formal.go`, `contradict.go`, `interval.go`, `canonical.go` | `sot` the cards, `file` whether the file is whole, empty or mixed of two writes; each writer's copy; the two audits are operators |
| `ChatFlow` | the three syncs, import, facts, apply | what each platform holds, one file per chat, markdown, the CRM's contacts; `cut` the chats whose file was open when something failed |
| `StackWave` | `bin/stack/sync.go` | `wstage`, `wstep` the position; `container`, `api` (brain-serve), `daemon` (the embedding daemon) who serves; `cStopped`, `stoppedAny` what the wave remembers |
| `CanonStore` | `frommail.go`, `fromchat.go`, `store.go` | files by path, the manifest, the feed |
| `DocTables` | `docpipe.go` | `page`, `box` the part being read; `rest` its fragments in no line yet, `lines` the rows of `bucketRows`, `lineNo` the place in the loop over them, `cur` the rows of a table so far, `tableIdx` the number of the next |
| `NetworkExport` | `network.go` of both directories, `ooimport.go`, `backfill.go`, `company.go`, `import-network.go` | `planned` the manifest; `book` the contacts of the CRM; `npc` the next call; `persons` whom the step still has to do; `typed`, `crossed`, `cameBetween` what people did in the CRM, and what of it crossed a call of the tool |
| `EtlRunner` | `walker.go`, `checkpoint.go`, `pipeline.go`, `bin/runner` | the seen-set, the two channels, what each worker holds; `bodies` the `message.md` of each directory, `converted` the letters whose body and attachments were written |
| `ArchiveImport` | `pst.go`, `mbox.go`, `import-pst.go`, `convert-mbox.go` | staging; `emls`, `markdown`, `withParts` the letters, bodies and attachments on disk, whole or torn |
| `Incubator` | `internal/incubator` | the mailbox, manifests on disk and in memory |
| `BrowserSync` | `internal/cron`, `browser-sync.go` | captures, the leafs of a cycle, the POST in flight |
| `CorpusWatch` | `watch.go` of the corpus watch | the version of the corpus, the stamp remembered |
| `MCAnnIndex`, `MCBrainServe`, `MCIndexSync`, `MCMailSync`, `MCSearch` | values of the constants | |
| `MCJobs`, `MCIntake` | the programs of one kind put side by side, with the values of their constants | `scene` (`source`) says whose behaviour it is |
| `AnnIndex_proofs`, `BrainServe_proofs`, `IndexSync_proofs`, `MailSync_proofs` | theorems about the module of that name | |
| `Intake_proofs` | theorems about MailWatch, EtlRunner, ArchiveImport, Incubator, BrowserSync and CorpusWatch | |
| `Jobs_proofs` | theorems about StackWave, FactAudit, FactStore, ChatFlow, HybridSearch and NetworkExport | |
| `Corpus_proofs` | theorems about CanonStore, CorpusWrite, GraphImport and DocTables | |
| `Lists_proofs` | lemmas about lists they share | |

An action is a stretch of code between two points where another actor can see
or change something: a lock operation, a file operation, a call to another
process.  What happens under one lock without such a point is one action.  The
definitions called a mutant in their comment change one such stretch the way a
bug would; nothing but the record of what each property is able to notice
refers to them.

### Abstractions worth knowing

- AnnIndex: a row is its leaf id; degenerate rows are those `rowEligible`
  refuses.  The snapshot is replaced by rename, so it is one step.  An append is
  a step per row, and a death may leave a prefix of a line.  An append glued to a
  torn line makes one bad line.  The threshold 10/9 of `annEnsurePlan` and the
  compaction threshold are constants.
- BrainServe: data is a set of leafs and synapses.  A handle shows what the file
  held when it was opened.  `Kill` takes all of the process's state.  The other
  processes of the stack are `ForeignOpen` and `ForeignClose`.
- IndexSync: time is kept as far as it is compared.  Each binary is one step
  that imports what has landed, or fails having perhaps touched the database.
  Its inside is CorpusWrite, GraphImport or AnnIndex.
- MailSync: messages of a folder are numbered as they arrive, so a delta link
  is a number.  A write is two steps (truncated, filled).  `Retry` is reduced to
  its outcome.  A configuration names the accounts, their services, who runs and
  with which flags.
- MailWatch: the fetch is one step (its inside is MailSync).  A file in the middle
  of a write is `torn`.
- CorpusWrite, GraphImport: a leaf is its content hash, a letter its id with a
  version; an address is a box and whether it is written in lower case.  A graph
  batch is written row by row; when its BEGIN failed, so that it is no transaction,
  what was written before it stopped stays.  Messages of one date come in any
  order (the code breaks the tie by their ids).
- HybridSearch: a ranking is any list in which nothing stands behind what it comes
  before.
- FactStore, FactAudit: a source is its parts for and against; days are numbers;
  a URL is a resource and a spelling.
- ChatFlow: a file is the set of the numbers of its messages; a chat has an order
  of its own.  The order in which the phones, and the mails, of a contact are added
  is open.  The CRM search is a table of whom the CRM lists for a query and whom the
  program takes for a match by name, besides the contacts that match by an address
  apply has added.
- CanonStore, ChatFlow, ArchiveImport: names that become one path are names of
  equal parts with different separators, or equal outright.
- DocTables: a fragment is its number, place, width and font size, the text of a
  cell the set of the fragments in it; the thresholds are the code's, on integers.
  Each turn of a loop over lines or rows is a step.
- NetworkExport: weights are counted in quarters.  The client library is external:
  an empty about and a company 0 leave a field as it is, creating a tag that
  exists changes nothing.  The address book of the first run has no address twice.
  A call is answered, refused, or takes effect without an answer.  Of the names of a
  contact the last one is kept apart: given, null, or the text "<nil>" that
  company.go:219-220 makes of a null.
- EtlRunner, ArchiveImport: a file is whole or torn, and its attachments are there
  or not; what exists passes for whole, as in the code.
- FactAudit: two writers that have both truncated the file write from its start;
  which text is longer is open, so the file is then whole or mixed.
- StackWave: sync.go:362 calls `bin/stack/serve-brain`; the script is
  `scripts/stack/serve-brain`, the error is dropped, so nothing is started.  The
  local processes are brain-serve, which holds the database, and the embedding
  daemon, which does not (`serve` of search.go) but is looked for and stopped too.
- `SafeSegment` never returns an empty string, so what the code does for one is
  left out of the models that use it.

## Runs

| Run | Instance | Shows |
|---|---|---|
| `ann` | four ids, one degenerate, torn appends, compaction, two deaths, database changes | no settled row lost by compaction or death, success is durable, no degenerate row anywhere, repeated `ensure` covers the database, the files implement `AnnStore` |
| `serve` | three requests of any kind, two workers, warm and cold start, one foreign holder | one holder of the file, no use after close, reads see acknowledged writes |
| `serve_answers` | two requests, warm start, one death, one foreign holder, one failing reopen | every request ends, every exit of a write restores the handle |
| `serve_stuck` | two searches, cold start | the recursive read lock of `annIndex` stops both (finding) |
| `isync` | a channel and a document partition, both mail modes, two versions each, in three surroundings | no step runs under a running brain, neither exit 0 nor `/stats` tells of packs as imported that are not; in calm surroundings every pack is imported and the brain comes back |
| `isync_skip` | packs landing during a cycle | such a pack is skipped (finding) |
| `msync` | accounts of the four services alone and in pairs, plain and forced, two overlapping runs over one account | a saved link covers no message of which there is nothing, and what is torn or missing of those it covers has cost a fault each; again and again nothing is left to download |
| `msync_gap` | one failing request, one failing write | the retry skips a message whose attachment failed, or whose `message.json` is torn, and saves the link (two findings) |
| `msync_flags` | a dry run, a limit, an account without raw mail beside one with it | the link is saved for what nobody downloaded (finding) |
| `search_cut` | matches of one root filling the candidates | a search of the other root is empty (finding) |
| `jobs` | twelve scenes, below | the programs over database, canon, chats and CRM that end |
| `intake` | six sources, below | the programs that bring material in |

`jobs` and `intake` are sums: a behaviour belongs to one program, and the variables
of the others keep one initial value, so that a run is as large as its programs
together and not as their product.  They do not interact in the code otherwise
than through files, and what each may find in them is among its inputs.

| Scene of `jobs` | Property | The question |
|---|---|---|
| corpus | `RunIsComplete`, `LinkLoss` | is every streamed leaf stored when a run reports success; which leafs lose their file |
| graph | `ConversationsLinked` | which reply edges exist, after imports of channels in any order, with and without `--skip-existing` |
| chats | `SyncedStaysSynced`, `ImportKeepsChats`, `ApplySettles` | which failures of a sync empty a file; do equal names across platforms destroy a chat; what does a repeated apply add |
| wave | `WaveRestores` | does the container run afterwards if and only if it did; is anybody touched without need |
| facts | `FactsAreEvidenced` | does what is shown as confirmed name two sources, and what has the evidence audit against it |
| cards | `AuditIdsUnique` | concurrent writers of one file: its numbers, as long as it is whole |
| formal, contradict | `AuditsDecide` | do the audits agree with the definitions of clash and of evidence, over bounded inputs |
| canon | `CanonFollows` | does a wave store every message that shares neither id nor path, whatever died before; is it stable |
| pages | `TablesAreWhole` | are tables grids with addresses of their own, and, on a page without boxes whose lines keep apart, do they hold every fragment they should; over some hundred documents of fragments on the edges of lines and boxes |
| network | `CrmIsTrue` | whom the manifest names; one whole contact per address, and what was written by hand stays, but for what people did while a call of the tool was under way; a repeated import writes nothing |
| search | `NothingBetterIsLeftOut` | does a better match of the asked kind stay out of an answer |

| Source of `intake` | Property | The question |
|---|---|---|
| mail | `RepostsAreBounded`, `EventuallyIngested` | a repost costs a fault; every message in front of a refused one is taken |
| etl | `LossIsBounded`, `PipelineNeverStuck` | what a failed run drops or leaves half written, of letters with a directory of their own; can three stages over two channels block each other |
| archive | `ArchiveIsExact` | is every letter brought, once, by an import that succeeds after kills and repeats; how many are not whole; of labels that share a directory the last one's letters only |
| mailbox | `ManifestsAreTrue` | is what a manifest lists in its mailbox; how many letters come twice |
| browser | `OkCycleIsComplete`, `EventuallyPushed` | does a cycle without error mean what it says; do captures arrive |
| corpus | `EveryChangeIsTried` | is a change between or during runs taken for one that was seen, or ever forgotten |

Surroundings of `isync`: calm (two failing steps, packs land between cycles); packs
landing at any time, a failing step and a death of the loop; packs landing at any
time, failing Docker calls and another writer of the database.  A property that is promised in calm surroundings
only says so in its definition.

Bounds.  Every counter that would be unbounded is cut by a constant of its own
(`MaxLines`, `MaxFaults`, `MaxDbOps`, `MaxKills`, `MaxForeign`, `MaxOpenFaults`,
`MaxPacks`, `MaxMail`, `MaxWriteFaults`, `MaxStops`, and `Max...Runs`,
`Max...Faults` of each program in `jobs` and `intake`, `MaxHandEdits` of the people
at the CRM: one contact edited or, of the persons `HandMade`, made, at any point of
the export).  They are enough for the
cases the properties are about: two deaths put one in the recovery of the other;
two rows on top of a compacted snapshot; a reader, a writer and a third request
that arrives between them; two searches that race for the index; a version that
lands before and one that lands during a cycle; two runs with a fault in one of
them; a message in front of and one behind the one at work; a chunk that fills and
a partial last one; a parent imported after its reply; a run, its repetition after
a fault and one more that must change nothing.  Three requests also fill a pool
of two workers.

Symmetry is used for requests, in the run without liveness.

Deadlock is reported by the runs that go on for ever (`ann`, `isync`, `msync`, the
latter with their cycles, and `serve_answers`, with `AllAnswered`).  It is not by
`serve`, whose cold starts include the self-deadlock that `serve_stuck` shows, and
by `jobs`, `intake` and `search_cut`, whose programs come to an end;
`PipelineNeverStuck` says for the one among them with channels that it does so only
when all stages have returned.

Fairness.  AnnIndex: a tool that started keeps going, and the wave starts
`ensure` again and again (strong fairness, since other commands keep making it
impossible for a while).  BrainServe: the Go scheduler runs every runnable
goroutine, the supervisor restarts the process, other holders finish.  None on
who gets a lock: Go's RWMutex lets an announced writer in front of later readers,
which the model has.  IndexSync, MailSync, MailWatch: the loop or the schedule
takes its next step.  BrowserSync: the systemd timer begins a cycle, and a cycle
goes on.  CorpusWatch: the loop goes on.  None of them assumes that a failing call
succeeds; faults are finite in number instead.

## Findings

- `annIndex` takes `annMu.RLock` and, in `annEnabled`, takes it again
  (annbridge.go:78 and 60-71).  With a writer in between, both wait for ever.
  `serve` avoids it by WarmANN; `ann api` does not.
- The skip of the index sync compares modification times (indexsync.go:415): a
  pack that lands during a cycle is older than the database the cycle writes and
  stays out of it until another pack lands.
- A message whose attachment failed is skipped by the next run because
  `message.json` exists (sync.go:422), and that run saves the delta link, although
  sync.go:356-357 calls failures retryable without gaps.
- So is a message whose `message.json` is torn, because the program was killed or
  its write failed between truncating and filling it: the file exists.
- A dry run, a limit that falls into a page and a raw download beside an account
  without raw mail count as success and save delta links (sync.go:390, 396-398,
  m365.go:203-208): what they cover is never listed again
  (against sync.go:143-144).
- Both candidate lists of a search are cut before the filters (search.go:120): a
  search of one root may come back empty, which rank.go:37 describes as what no
  longer happens.

Seen while modelling and not checked by a run of their own; each is in a model, in
the note of a hazard, or outside the models; where it contradicts a sentence of the
repository, that is named:

- Vector index: a row appended after a torn line is lost with it (ann.go:617); an
  index with more than a tenth of degenerate rows is rebuilt by every ensure
  (anntool.go:302); the index disabled, `ann ensure` exits with 3 and no cycle
  succeeds (indexsync.go:308), and `go run` makes a 1 of it where the wave expects
  the code.
- Serve: a reopen that fails leaves the process without a handle and its error is
  dropped (http.go:249); a write whose indexes fail has been committed when the
  client is told of an error (http.go:259); `annStats` is written under a read lock
  by concurrent Stats (annbridge.go:214); `/ingest` stores a missing field as
  `<nil>` (http.go:318).
- Index sync: `--rebuild` removes the leafs the same cycle imported
  (indexsync.go:268); a stop that reports an error, a failed start or a death leaves
  the brain down (indexsync.go:432). Between the check that nobody serves the
  database and its removal by brain-index another process may open it
  (bin/brain/index.go:198).
- Wave: `restartBrain` calls `bin/stack/serve-brain` (bin/stack/sync.go:362), a path
  that does not exist (the script is in `scripts/stack`), and drops the error: local
  processes it stopped stay down, against sync.go:346-347.
- Mail: the delta file is written in place (m365.go:466); IMAP UIDs are taken as
  permanent although the server may renumber them (imap.go:146); a message cut short
  in its conversion is never converted again (mailconv.go:186), and of several .eml
  files in one directory `FromEMLFile` converts the first only (mailconv.go:230-237)
  and takes an existing `message.md`, another letter's or a torn one, for done
  (mailconv.go:235-238); a letter or attachment torn on its way into an archive is
  never repaired; archives whose labels give one directory delete the letters of the
  one imported before (pst.go, mbox.go); a refused message stops those behind it
  (watch.go:285).
- Etl: a symbolic link to a directory ends the walk of the directory it is in
  (walker.go:105); pipeline.go:7-8 promises that in-flight work is drained, and a
  cancel drops it.
- Corpus: an unreadable directory of documents or chats, or git root, ends its
  stream (docs.go:41-44, chats.go:34-36, git.go:66-69); rows of one cell in the
  middle of a box are left out of its table (docpipe.go:340-345).
- Facts: gate.go:12 says that a 2v2 contradiction never passes the gate. A ` vs `
  claim whose confidence nobody set is promoted with the default confidence
  (promotefacts.go:39-45) and shown as confirmed. Two writers of the audit cards
  that have both truncated the file overlay each other: the shorter text leaves the
  tail of the longer one (auditcard.go:225).
- Chats and facts: a write that fails after os.Create leaves a chat file empty
  (linkedin.go:393-396, mcpclient.go:391-394, sync_whatsapp.go:205), against
  linkedin.go:357-358; the search of apply also matches addresses that apply added
  itself, so a repeated apply may find another contact and add there
  (apply.go:276-291); equal names share a file (import.go:119); the client of a
  wedged LinkedIn server is closed only when its replacement has been used
  (linkedin.go:297-305); of two audit cards written at a time one is lost
  (auditcard.go:123); a mail address with a digit in it is reduced to its digits as
  if it were a phone number (apply.go:192).
- Network: linking a company sends `fmt.Sprint` of the names it read, so that a null
  last name becomes `<nil>` (company.go:219-220), which backfill.go:138 avoids; a
  contact somebody makes after the address index was read is made a second time
  (ooimport.go:159), and a rollback deletes the contact it created with what
  somebody typed into it meanwhile (ooimport.go:216, 220); `--until YYYY-MM-DD` is
  midnight, so that it leaves that day out where the filter calls its bounds
  inclusive (network.go:69-70); the limit counts services that are dropped after it.

## Proofs

Thirty-six theorems; every safety property of a passing run has one, but for
half of `PipelineNeverStuck` (see the end of this section).
Each follows from an inductive invariant that has a name in the proof module and
is a conjunction of named parts; there is one lemma per action.

Each module states the types of its constants, and what the code guarantees of
them, in one assumption (`AnnAssumption`, `ServeAssumption`, `SyncAssumption`,
`MailAssumption`, `WatchAssumption`, `EtlAssumption`, `ArchiveAssumption`,
`IncubatorAssumption`, `BrowserAssumption`, `AuditAssumption`, `FactAssumption`,
`ChatAssumption`, `SearchAssumption`, `NetAssumption`, `CanonAssumption`,
`CorpusAssumption` with `AdaptersEmitLeafs`, `GraphAssumption`, `DocAssumption`,
`PollAssumption`); TLC evaluates all
of them in the runs of `MCAnnIndex`, `MCBrainServe`, `MCIndexSync`, `MCMailSync`,
`MCJobs` and `MCIntake`.  Five theorems need more, and
have it as a hypothesis of their own:

| Hypothesis | Theorem | Why |
|---|---|---|
| `~Rebuild` | `ToldIsImported` | with `--rebuild` the indexer removes leafs the same cycle imported (indexsync.go:268), and the claim is false |
| `WholeRuns` | `LinksCoverTheWork` | dry runs, limits and raw downloads save links for what nobody downloaded; the run `msync_flags` shows it |
| `WholeSpans` | `AuditsDecideRightly` | the code does not refuse an interval that ends before it begins, and no day lies in such a one |
| `NothingReturns` | `StoreFollowsSource` | a wave that dies between a file and the manifest leaves the old text recorded; should the source return to that text, the wave skips it |

`AnnIndex_proofs`, for any set of ids, thresholds and bounds, torn appends
included:

- `TypeCorrect`, `NeverDegenerate`, `MemoryCovers`: type and coverage invariants.
  `MemCoversDisk` is not inductive: that memory covers the files while a tool saves
  depends on what the tool did since it opened them, so the invariant says for
  each step of the tool how its memory, its rows and the files are related.
- `SettledRowsStick`: the action property from the same invariant.
- `SuccessIsDurable`: `EnsureCovers` itself says that it speaks of logs whose lines
  are whole (`Clean(wal)`); the invariant keeps, for each step, what such a log
  holds of the rows the tool has extracted.
- `FilesImplementStore`: every step maps to a step of `AnnStore` or a stutter.  The
  store's `pending` is the one stretch in which memory and files may differ:
  between a build and the save that follows it.

`BrainServe_proofs`, for any number of requests, workers, leafs, deaths and
foreign holders, warm or cold:

- `TypeCorrect`: together with `Mutexes`, which says that a request holds exactly
  the locks its step says.  The RWMutex operations get their lemmas first; then one
  case per action.
- `FileOpenedOnce`, `ReadersKeepHandle`, `WritesRestoreHandle`: from `Handles`,
  which ties the two handles to the steps of the writer.  `OneHandle` alone says
  nothing of the step between close and open and is not inductive.
- `ReadsSeeAckedWrites`: from `Data`: acknowledged writes are in the file, an
  open handle shows the whole file (`Handles`), and every step of a search behind
  the text query has already seen what was acknowledged before it.
- `IndexOpenedOnce`: from the actions alone; like the two type invariants, a
  theorem that no run repeats.

`IndexSync_proofs`, for any channels, documents, surroundings and bounds:

- `StepsRunWhileStopped`: `WritesWhileStopped` is inductive as it stands.
- `ToldIsImported`: `WhatIsToldIsImported` speaks of cycles that have ended and is
  not inductive.  `SyncInv` adds how far the running one has come: nothing is ahead
  of what has landed (`Behind`), what there was when the cycle began has been
  discovered (`Discovered`), and each step already behind it has imported that much
  (`ImportedSoFar`); in calm surroundings nothing lands during a cycle and so the
  freshness file is never ahead of the leafs (`CalmCycles`).

`MailSync_proofs`, for any accounts, folders, messages and number of overlapping
runs:

- `LinksCoverTheWork`, in two halves.  That a link passes over nothing: the saved
  link alone is not inductive, a run carries the link it will save (`pending`)
  through listing, work and commit.  So `MailInv` says of each stage that of every
  message below the pending link there is a `message.json`, or it is listed or has a
  job (`Accounted`), that a job that is done has left one (`JobsWritten`), and that
  a source about to be committed has no job left or failed (`Committable`).  A
  `message.json` that exists need not be whole, so the other half counts how far
  the two findings of `msync_gap` can go.  A message may lack something long before
  a link covers it; `GapInv` counts all that nobody is at work on and that lack an
  attachment or a whole file, `message.json` included (`Loose`), covered or not: a
  failed request or write adds one, a killed or cancelled run as many as it has
  workers (`PoolFits`), and no other step adds any, since a worker that is at a
  message still has what is missing on its list (`StillLeft`, `LoosePaid`).

`Intake_proofs`:

- `RepostsCostAFault` (MailWatch): what the brain has taken and the state file does
  not list, together with the reposts so far, is paid for by faults and crashes
  (`RepeatsPaid`).
- `LossOfFailedRuns` (EtlRunner): a letter the seen-set lists is lost when it was
  dropped (`Dropped`), or when the `message.md` of its directory was begun and its
  conversion never completed (`Spoiled`).  What is lost (`Lost`), together with what
  workers that have left held, is at most a first channel and the workers for each
  failed run (`LossIsPaid`).  A handler that returned nil is no proof of a letter:
  of letters that share a directory the second finds the first one's `message.md`,
  so the theorem speaks of letters with a directory of their own.
- `SomeStageIsReady` (EtlRunner): for any number of workers and any capacities, as
  long as a run has not ended one stage is ready.  Whoever waits waits for somebody:
  the walk for the workers, they for the loader, and the loader stays until the last
  worker has left or the context is cancelled (`LoaderLast`).
- `ImportsLeaveEveryLetter` (ArchiveImport): what has been extracted lies in its
  directory until the next source (`Extracting`), then in the corpus or still to be
  copied (`Copying`), then in markdown or still to be converted (`Converting`).  A
  file that exists may be torn and a body may lack its attachments: `DamageInv`
  counts these letters (`Damaged`), at most one for each fault (`DamageIsPaid`).
- `FewComeTwice` (Incubator): the letters in the mailbox beyond those some manifest
  lists are at most `Every` for each fault and the one just stored
  (`DuplicatesPaid`, `FewUnwritten`); what a manifest lists is stored
  (`ListsAreStored`).
- `OkCyclesAreComplete` (BrowserSync): a file nobody rewrote is still to be read or in
  the payload (`Loading`).  An action property.
- `WatchSeesChanges` (CorpusWatch): the stamp remembered is that of the last run or
  none, and versions only rise.

`Jobs_proofs`:

- `WaveLeavesNoTrace` (StackWave): as long as nobody was stopped, all are as they
  were (`Untouched`), and what the wave remembers of the container is how it ran
  (`Remembered`).  It says nothing of a wave that was killed, nor that the local
  processes come back: they do not.
- `CardNumbersUnique`: not only the file, when it is whole, but each writer's copy of
  it has unique numbers too (`Readers`), of which the largest is used for the next.
- `AuditsDecideRightly`: facts about the two operators, over all inputs.  Two
  narrative sources are enough to decide (contradict.go:98-104).
- `FactsRestOnTwoSources`: what is still to be written may be written
  (`Pending`).  Two names are all that is certain of a ` vs ` source, of which
  nobody compares the sides.
- `NoFileIsEmptied`, `ImportsLoseNoChat`, `ApplyingTwiceAddsNothing` (ChatFlow): only
  the file that is open, or was when a program was killed or could not write, is
  empty; a chat waits in the queue, has its file or shares a name; until a search or
  an add fails, what is not in the CRM is still to be added, unless an address that
  apply has added now leads the search to this contact (`FoundByAddress`).
- `AnswersAreTheBest` (HybridSearch): candidates are beginnings of rankings of the
  matches, cut at three times the limit; so the answer is the beginning of the order
  of all that pass.
- `ContactsAreTrue` (NetworkExport): who is still to be created is not in the CRM,
  unless somebody made the contact meanwhile (`cameBetween`); what is read and about
  to be written back knows every edit made before it (`ReadBefore`), so that of what
  was typed by hand only that is gone which crossed a call of the tool (`typed`,
  `crossed`); contacts without address or tag are at most those that could not be
  undone, a name about to be written back included (`FewLoose`); nothing was skipped
  unless a call failed (`NothingSkipped`), so that a run that ended well leaves
  nothing to write (`NothingToWrite`).

`Corpus_proofs`:

- `StoreFollowsSource` (CanonStore): a wave's position splits the messages into those
  that are written and recorded and the rest.
- `SuccessStoresAll`, `FailuresLeaveABatch` (CorpusWrite): a streamed leaf is in the
  chunk, in the batch or in the database (`AllStored`), with the embedding of its own
  text, in whichever order workers finish (`OwnEmbedding`); leafs without a link are
  at most a batch for each failure (`OwedIsPaid`).
- `RunsJoinConversations` (GraphImport): the graph in view holds what it held before,
  every row passed in the thread of its conversation, and every edge whose other end
  was there (`WrittenSoFar`).  A reply and its parent have the same top of their
  chain.
- `DocTablesWhole` (DocTables): the invariant follows the loops.  The lines so far
  share the fragments read among them, each above the next and in order from left
  to right; the rows collected are the last lines back to one of a single fragment
  (in a box, all of them, with what wrapped into them); the tables of the page are
  exactly the runs that have ended (`RunsSoFar`), and their addresses are behind
  the one to be given next (`AddressesTaken`).  When the lines of a page keep
  apart, what `bucketRows` makes of it are just the classes `Line` speaks of, and so
  the runs are the fragments of `InTable` (`RunsAreTables`).

Model-checked only:

- liveness (`EventuallyCovered`, `EveryRequestEnds`, `EventuallyIndexed`,
  `BrainServes`, `EventuallySynced`, `EventuallyIngested`, `EventuallyPushed` and the
  second half of `EveryChangeIsTried`), which needs fairness and `ENABLED`;
- the half of `PipelineNeverStuck` that says a ready stage has a step, since that is
  `ENABLED`.

## Not modelled

- The brain client sends one request per call (its gate is in FactStore); web
  search keeps one file per query in front of remote engines; the reasoner client
  reads answers of a language model; the read contract checks the format of one
  record.  They share no state between actors.
- The other OnlyOffice tools are loops of single calls; what may go wrong when such
  a loop is cut short is in NetworkExport and ChatFlow.
- Parsers and renderers of formats, contacts and phone numbers, configuration, the
  command line, the research and bench tools, and the quality of ranking,
  clustering and language models.
- Of modelled parts: the protocols of the four mail services (a request answers or
  fails), the containers and log-in of the LinkedIn server, the git source and
  statistics of the runner, superseded headlines of a re-index, the time horizon of
  the stale flag, names, periods and premises of the network map.

## Plan

The modules of the plan are written, and proved about as far as above.  What would
extend them most: the LinkedIn log-in and the git source of the runner, which are
left out of ChatFlow and EtlRunner, and a state for the cache of the web search.

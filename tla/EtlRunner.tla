------------------------------ MODULE EtlRunner ------------------------------
(***************************************************************************)
(* bin/runner: one producer lists the .eml files of a corpus and hands     *)
(* those its checkpoint has not seen to a bounded channel, workers convert *)
(* them and pass them on through a second one to the load stage.  The      *)
(* first error of a stage cancels all of them (errgroup).                  *)
(***************************************************************************)
EXTENDS Integers, FiniteSets, Sequences

CONSTANTS
    Corpora,        \* corpora: sequences of entries in the order of the walk
    EtlWorkers,     \* workers of the pool
    Buffer,         \* capacity of each channel
    MaxEtlRuns, MaxEtlFaults

\* withDefaults: a pool has a worker and a channel has room.
ASSUME EtlAssumption ==
    /\ IsFiniteSet(EtlWorkers) /\ EtlWorkers # {}
    /\ Buffer \in Nat \ {0}

VARIABLES
    files,       \* the corpus: [dir, kind, eml, bytes, ok]
    epc,         \* the producer: "idle" (no run), "fetch", "emit" or "done"
    eseen,       \* its seen-set, in memory
    checkpoint,  \* and on disk
    batch,       \* indices of the blobs still to be handed out
    inq, outq,   \* the channels
    work,        \* what each worker does: [at, blob]
    loader,      \* the load stage runs
    cancelled,   \* the context of the run
    bodies,      \* message.md per directory: "none", "torn" or the letter's bytes
    converted,   \* letters whose body and attachments have been written
    failedRuns, eruns, efaults

etlVars == <<files, epc, eseen, checkpoint, batch, inq, outq, work, loader, cancelled, bodies,
             converted, failedRuns, eruns, efaults>>

pipeline == <<eseen, batch, inq, outq, work, loader>>
ends == <<files, eruns>>

-----------------------------------------------------------------------------
(* The walk.  An entry of the corpus lies in a directory, 0 being the root,  *)
(* and is a "file", a link "inside" or "outside" the corpus, or a link to a  *)
(* directory, "linkdir".                                                     *)

\* SkipDir, returned for a link, makes WalkDir leave the rest of the directory.
Reached(c, i) == ~\E j \in 1..i - 1 : c[j].kind = "linkdir" /\ c[j].dir \in {0, c[i].dir}

addFile(e) == e.eml /\ e.kind \in {"file", "inside"}

\* Disk.Fetch: one blob per file, named by its bytes.
WalkFiles(c) == {i \in DOMAIN c : Reached(c, i) /\ addFile(c[i])}
Letters == {files[i] : i \in WalkFiles(files)}

\* Files in the order of their names; those behind a link come first, under
\* their absolute name.
Due(i) ==
    /\ i \in batch
    /\ \A j \in batch : IF files[i].kind = files[j].kind THEN i <= j ELSE files[i].kind = "inside"

Nothing0 == [dir |-> 0, kind |-> "file", eml |-> FALSE, bytes |-> "", ok |-> TRUE]
AllIdle == [w \in EtlWorkers |-> [at |-> "idle", blob |-> Nothing0]]
Put1(w, at, b) == work' = [work EXCEPT ![w] = [at |-> at, blob |-> b]]

-----------------------------------------------------------------------------
EtlInit ==
    /\ files \in Corpora
    /\ epc = "idle" /\ eseen = {} /\ checkpoint = {} /\ batch = {}
    /\ inq = <<>> /\ outq = <<>> /\ work = AllIdle /\ loader = FALSE /\ cancelled = FALSE
    /\ bodies = [d \in {files[i].dir : i \in DOMAIN files} |-> "none"]
    /\ converted = {} /\ failedRuns = 0 /\ eruns = 0 /\ efaults = 0

EtlFault == efaults < MaxEtlFaults /\ efaults' = efaults + 1

\* The program, or the next round of its interval.
EtlRun ==
    /\ epc = "idle" /\ eruns < MaxEtlRuns
    /\ eruns' = eruns + 1 /\ epc' = "fetch" /\ loader' = TRUE
    /\ eseen' = checkpoint
    /\ UNCHANGED <<files, checkpoint, batch, inq, outq, work, cancelled, bodies, converted, failedRuns, efaults>>

\* The tree cannot be walked or a file not read.
Fetch ==
    /\ epc = "fetch"
    /\ \/ ~cancelled /\ epc' = "emit" /\ batch' = WalkFiles(files) /\ UNCHANGED <<cancelled, efaults>>
       \/ cancelled /\ epc' = "done" /\ UNCHANGED <<batch, cancelled, efaults>>
       \/ EtlFault /\ epc' = "done" /\ cancelled' = TRUE /\ UNCHANGED batch
    /\ UNCHANGED <<ends, eseen, checkpoint, inq, outq, work, loader, bodies, converted, failedRuns>>

SkipSeen ==
    /\ epc = "emit"
    /\ \E i \in batch : Due(i) /\ files[i].bytes \in eseen /\ batch' = batch \ {i}
    /\ UNCHANGED <<ends, epc, eseen, checkpoint, inq, outq, work, loader, cancelled, bodies, converted, failedRuns, efaults>>

Unseen(i) == epc = "emit" /\ Due(i) /\ files[i].bytes \notin eseen
Hand(i) == inq' = Append(inq, files[i]) /\ eseen' = eseen \cup {files[i].bytes} /\ batch' = batch \ {i}

\* Mutant: a channel without a bound.
EmitUnbounded ==
    /\ \E i \in batch : Unseen(i) /\ Hand(i)
    /\ UNCHANGED <<ends, epc, checkpoint, outq, work, loader, cancelled, bodies, converted, failedRuns, efaults>>

\* Seen is what has been put into the channel, not what has been converted.
Emit ==
    /\ Len(inq) < Buffer
    /\ \E i \in batch : Unseen(i) /\ Hand(i)
    /\ UNCHANGED <<ends, epc, checkpoint, outq, work, loader, cancelled, bodies, converted, failedRuns, efaults>>

\* The checkpoint is replaced as a whole or, if it cannot be written, not.
saveCheckpoint ==
    \/ checkpoint' = eseen /\ UNCHANGED <<cancelled, efaults>>
    \/ EtlFault /\ cancelled' = TRUE /\ UNCHANGED checkpoint

\* Handing out is over, or given up with the context; the channel is closed.
EndBatch ==
    /\ epc = "emit" /\ (batch = {} \/ (cancelled /\ \E i \in batch : Unseen(i)))
    /\ saveCheckpoint /\ epc' = "done"
    /\ UNCHANGED <<ends, pipeline, bodies, converted, failedRuns>>

-----------------------------------------------------------------------------
Take(w) ==
    /\ epc # "idle" /\ work[w].at = "idle" /\ inq # <<>>
    /\ Put1(w, "check", Head(inq)) /\ inq' = Tail(inq)
    /\ UNCHANGED <<ends, epc, eseen, checkpoint, batch, outq, loader, cancelled, bodies, converted, failedRuns, efaults>>

\* A worker returns at the end of the channel or of the context.
Leave(w) ==
    /\ epc # "idle" /\ work[w].at = "idle" /\ (cancelled \/ (inq = <<>> /\ epc = "done"))
    /\ Put1(w, "gone", Nothing0)
    /\ UNCHANGED <<ends, epc, eseen, checkpoint, batch, inq, outq, loader, cancelled, bodies, converted, failedRuns, efaults>>

\* An error of the handler, a letter it cannot parse or a file it cannot
\* write, is the error of the run.
HandlerFails(w) == Put1(w, "gone", Nothing0) /\ cancelled' = TRUE /\ UNCHANGED converted
HandlerEnds(w, b) == Put1(w, "send", b) /\ UNCHANGED cancelled

rest == <<ends, epc, eseen, checkpoint, batch, inq, outq, loader, failedRuns>>

\* decode and the start of FromEMLFile: a directory with a message.md is done,
\* be it of another letter or cut short.
Decode(w) ==
    LET b == work[w].blob IN
    /\ work[w].at = "check"
    /\ \/ cancelled /\ HandlerFails(w)
       \/ ~cancelled /\ bodies[b.dir] # "none" /\ HandlerEnds(w, b) /\ UNCHANGED converted
       \/ ~cancelled /\ bodies[b.dir] = "none" /\ ~b.ok /\ HandlerFails(w)
       \/ ~cancelled /\ bodies[b.dir] = "none" /\ b.ok
          /\ Put1(w, "body", b) /\ UNCHANGED <<cancelled, converted>>
    /\ UNCHANGED <<rest, bodies, efaults>>

\* os.WriteFile empties the file and fills it; two letters of one directory
\* may be written into one file at once.
WriteBody(w) ==
    LET b == work[w].blob
        shared == \E v \in EtlWorkers \ {w} : work[v].at = "body" /\ work[v].blob.dir = b.dir
    IN /\ work[w].at = "body"
       /\ \/ /\ bodies' \in {[bodies EXCEPT ![b.dir] = x] : x \in {b.bytes} \cup (IF shared THEN {"torn"} ELSE {})}
             /\ Put1(w, "parts", b) /\ UNCHANGED <<cancelled, converted, efaults>>
          \/ /\ EtlFault /\ HandlerFails(w)
             /\ bodies' \in {bodies} \cup {[bodies EXCEPT ![b.dir] = x] : x \in {"none", "torn"}}
       /\ UNCHANGED rest

WriteAttachments(w) ==
    LET b == work[w].blob IN
    /\ work[w].at = "parts"
    /\ \/ HandlerEnds(w, b) /\ converted' = converted \cup {b.bytes} /\ UNCHANGED efaults
       \/ EtlFault /\ HandlerFails(w)
    /\ UNCHANGED <<rest, bodies>>

\* Mutant: a worker waits for the load stage whatever becomes of the run.
SendOnly(w) ==
    /\ work[w].at = "send"
    /\ Len(outq) < Buffer /\ outq' = Append(outq, work[w].blob) /\ Put1(w, "idle", Nothing0)
    /\ UNCHANGED <<ends, epc, eseen, checkpoint, batch, inq, loader, cancelled, bodies, converted, failedRuns, efaults>>

Send(w) ==
    /\ work[w].at = "send"
    /\ \/ Len(outq) < Buffer /\ outq' = Append(outq, work[w].blob) /\ Put1(w, "idle", Nothing0)
       \/ cancelled /\ Put1(w, "gone", Nothing0) /\ UNCHANGED outq
    /\ UNCHANGED <<ends, epc, eseen, checkpoint, batch, inq, loader, cancelled, bodies, converted, failedRuns, efaults>>

Gone == \A w \in EtlWorkers : work[w].at = "gone"

\* bin/runner has no load function; the channel is closed by the last worker.
Load ==
    /\ loader
    /\ \/ outq # <<>> /\ outq' = Tail(outq) /\ UNCHANGED loader
       \/ (cancelled \/ (outq = <<>> /\ Gone)) /\ loader' = FALSE /\ UNCHANGED outq
    /\ UNCHANGED <<ends, epc, eseen, checkpoint, batch, inq, work, cancelled, bodies, converted, failedRuns, efaults>>

-----------------------------------------------------------------------------
Reset ==
    /\ epc' = "idle" /\ eseen' = {} /\ batch' = {} /\ inq' = <<>> /\ outq' = <<>>
    /\ work' = AllIdle /\ loader' = FALSE /\ cancelled' = FALSE

\* g.Wait: every stage has returned.
EtlEnd ==
    /\ epc = "done" /\ Gone /\ ~loader
    /\ Reset /\ failedRuns' = failedRuns + IF cancelled THEN 1 ELSE 0
    /\ UNCHANGED <<ends, checkpoint, bodies, converted, efaults>>

EtlSignal ==
    /\ epc # "idle" /\ ~cancelled /\ EtlFault /\ cancelled' = TRUE
    /\ UNCHANGED <<ends, epc, checkpoint, pipeline, bodies, converted, failedRuns>>

\* A letter just being written is cut short.
EtlKilled ==
    LET writing == {work[w].blob.dir : w \in {v \in EtlWorkers : work[v].at = "body"}} IN
    /\ epc # "idle" /\ EtlFault
    /\ Reset /\ failedRuns' = failedRuns + 1
    /\ \E cut \in {"none", "torn"} :
          bodies' \in {bodies, [d \in DOMAIN bodies |-> IF d \in writing THEN cut ELSE bodies[d]]}
    /\ UNCHANGED <<ends, checkpoint, converted>>

Stage(w) == Take(w) \/ Leave(w) \/ Decode(w) \/ WriteBody(w) \/ WriteAttachments(w) \/ Send(w)
EtlStep == Fetch \/ SkipSeen \/ Emit \/ EndBatch \/ (\E w \in EtlWorkers : Stage(w)) \/ Load \/ EtlEnd
EtlNext == EtlRun \/ EtlStep \/ EtlSignal \/ EtlKilled

-----------------------------------------------------------------------------
InPipeline ==
    {inq[i].bytes : i \in DOMAIN inq}
        \cup {work[w].blob.bytes : w \in {v \in EtlWorkers : work[v].at \in {"check", "body", "parts"}}}

\* A letter with no other letter in its directory.
Alone(x) == \A b, c \in Letters : b.bytes = x /\ c.dir = b.dir => c.bytes = x

(* A letter with a directory of its own that the seen-set lists has been      *)
(* converted, body and attachments, or is on its way, except for those the    *)
(* failed runs dropped or left half written, which no later run repairs: of   *)
(* each run at most what the first channel and the workers hold.  Of letters  *)
(* that share a directory only the first to be written is converted.          *)
LossIsBounded ==
    LET lost == {x \in (checkpoint \cup eseen) \ (converted \cup InPipeline) : Alone(x)}
    IN Cardinality(lost) <= (Buffer + Cardinality(EtlWorkers)) * (failedRuns + IF cancelled THEN 1 ELSE 0)

(* Where a stage can take its next step.                                      *)
ProducerReady ==
    \/ epc = "fetch"
    \/ epc = "emit" /\ (batch = {} \/ cancelled \/ Len(inq) < Buffer \/ \E i \in batch : Due(i) /\ files[i].bytes \in eseen)

WorkerReady(w) ==
    \/ work[w].at \in {"check", "body", "parts"}
    \/ work[w].at = "idle" /\ epc # "idle" /\ (inq # <<>> \/ cancelled \/ epc = "done")
    \/ work[w].at = "send" /\ (cancelled \/ Len(outq) < Buffer)

LoaderReady == loader /\ (outq # <<>> \/ cancelled \/ Gone)
RunOver == epc = "done" /\ Gone /\ ~loader
SomeStageReady == ProducerReady \/ (\E w \in EtlWorkers : WorkerReady(w)) \/ LoaderReady \/ RunOver

(* However a stage fails or the run is cancelled, with full channels and      *)
(* stages that have left, some stage can go on until all have returned; and a *)
(* stage that is ready is one that has a step.                                *)
PipelineNeverStuck == (epc # "idle" => SomeStageReady) /\ (SomeStageReady <=> ENABLED EtlStep)
=============================================================================

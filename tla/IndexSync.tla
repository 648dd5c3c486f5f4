----------------------------- MODULE IndexSync -----------------------------
(***************************************************************************)
(* The periodic cycle of internal/indexsync: find what upstream packs there *)
(* are, decide from modification times whether the database is behind,     *)
(* stop the brain container, run the import and index binaries one after   *)
(* the other, save the freshness state and start the brain again.          *)
(*                                                                         *)
(* Time is kept only as far as the code compares it.  Upstream s is at     *)
(* version landed[s]; kbSeen[s] is the version whose packs are not newer   *)
(* than kb.lbug, so "kb mtime >= pack mtime" reads kbSeen[s] >= version.   *)
(***************************************************************************)
EXTENDS Integers, FiniteSets

CONSTANTS
    Chans,       \* mail channels (of the gator hive, or the one local corpus)
    Docs,        \* partitions of the documents hive
    GatorModes,  \* values of MailSource = "gator" a loop may be started with
    Rebuild,     \* --rebuild
    AnnWired,    \* AnnBin is set
    AnnEnabled,  \* vector.ann.enabled, as the ann binary reads it
    MaxPacks,    \* bound on the versions of one upstream
    Surroundings \* what else may happen around the loop: records of
                 \*   busy      packs land while a cycle runs
                 \*   docker    a call to the Docker engine may fail
                 \*   fails     bound on failing steps and calls
                 \*   writes    bound on writes of kb.lbug by other programs
                 \*   deaths    bound on deaths of the loop's process

Sources == Chans \cup Docs

ASSUME SyncAssumption ==
    /\ IsFiniteSet(Sources) /\ Chans \cap Docs = {}
    /\ GatorModes \cup {Rebuild, AnnWired, AnnEnabled} \subseteq BOOLEAN
    /\ MaxPacks \in Nat
    /\ Surroundings \subseteq [busy : BOOLEAN, docker : BOOLEAN, fails : Nat, writes : Nat, deaths : Nat]

VARIABLES
    landed,   \* per upstream: newest version on disk, 0 when absent
    kbSeen,   \* per upstream: newest version not younger than kb.lbug
    leaf,     \* per upstream: version imported as leafs
    graph,    \* per channel: version imported into the message graph
    brain,    \* is the brain container running
    annFile,  \* does the vector index file exist
    fresh,    \* the freshness file: last_error, index_at, pack_mtime
    gator,    \* MailSource = "gator", for the life of the loop
    around,   \* the surroundings this behaviour takes place in
    pc,       \* step of the cycle
    found,    \* upstreams discovered by this cycle
    packs,    \* versions the cycle took its pack mtime from (packNano)
    todo,     \* channels still to be imported into the graph
    stopped,  \* a release of the brain is deferred
    began,    \* versions when the cycle began
    good,     \* versions when the last successful cycle began
    faults, others, crashes   \* what the bounds count

world == <<landed, kbSeen, leaf, graph, brain, annFile>>
run == <<found, packs, todo, stopped, began, good>>
bounds == <<faults, others, crashes>>
setting == <<gator, around>>
vars == <<world, fresh, setting, pc, run, bounds>>

Versions == [Sources -> 0..MaxPacks]
None == [s \in Sources |-> 0]

\* kb.lbug exists: the brain serves it.
Init ==
    /\ landed = None /\ kbSeen = None /\ leaf = None
    /\ graph = [c \in Chans |-> 0]
    /\ brain = TRUE /\ annFile \in BOOLEAN
    /\ fresh = [err |-> FALSE, indexed |-> FALSE, pack |-> None]
    /\ gator \in GatorModes /\ around \in Surroundings
    /\ pc = "idle" /\ found = {} /\ packs = None /\ todo = {} /\ stopped = FALSE
    /\ began = None /\ good = None
    /\ faults = 0 /\ others = 0 /\ crashes = 0

-----------------------------------------------------------------------------
(* Upstream, and other writers of kb.lbug (ingest, add, a restart's ALTER). *)

Land(s) ==
    /\ landed[s] < MaxPacks /\ (around.busy \/ pc = "idle")
    /\ landed' = [landed EXCEPT ![s] = @ + 1]
    /\ UNCHANGED <<kbSeen, leaf, graph, brain, annFile, fresh, pc, run, bounds>>

OtherWrite ==
    /\ others < around.writes /\ others' = others + 1
    /\ kbSeen' = landed
    /\ UNCHANGED <<landed, leaf, graph, brain, annFile, fresh, pc, run, faults, crashes>>

-----------------------------------------------------------------------------
(* saveError and saveSuccess: load, change, write aside, rename. *)

SaveError == fresh' = [fresh EXCEPT !.err = TRUE]
SaveSuccess ==
    fresh' = [err |-> FALSE, indexed |-> TRUE,
              pack |-> IF packs = None THEN fresh.pack ELSE packs]

\* A step that fails saves the error and returns, through the deferred release.
Fail ==
    /\ faults < around.fails /\ faults' = faults + 1
    /\ SaveError
    /\ UNCHANGED <<others, crashes>>

\* A call of the Docker engine fails.
CallFails ==
    /\ around.docker /\ faults < around.fails /\ faults' = faults + 1
    /\ UNCHANGED <<others, crashes>>

Begin ==
    /\ pc = "idle"
    /\ pc' = "discover" /\ began' = landed
    /\ UNCHANGED <<world, fresh, found, packs, todo, stopped, good, bounds>>

\* Channels and document partitions that exist now; the corpus's own newest
\* mtime is taken here as well.
Discover ==
    /\ pc = "discover"
    /\ \/ /\ found' = {s \in Sources : landed[s] > 0}
          /\ packs' = [s \in Sources |-> IF ~gator /\ s \in Chans THEN landed[s] ELSE 0]
          /\ pc' = "decide" /\ UNCHANGED <<fresh, bounds>>
       \/ /\ Fail /\ pc' = "idle" /\ UNCHANGED <<found, packs>>
    /\ UNCHANGED <<world, todo, stopped, began, good>>

\* newestPack over the active trees, as they are now.
NewestPack == [s \in Sources |-> IF ~gator /\ s \in Chans THEN packs[s] ELSE landed[s]]

\* Mutant: the last cycle's error is not looked at.
ShouldSkipOnError(p) ==
    /\ ~Rebuild /\ p # None
    /\ AnnWired => annFile
    /\ fresh.indexed
    /\ \A s \in Sources : kbSeen[s] >= p[s]

ShouldSkip(p) ==
    /\ ~Rebuild /\ p # None
    /\ AnnWired => annFile
    /\ ~fresh.err /\ fresh.indexed
    /\ \A s \in Sources : kbSeen[s] >= p[s]

Decide ==
    /\ pc = "decide"
    /\ packs' = NewestPack
    /\ pc' = IF found = {} THEN "nothing"
             ELSE IF ShouldSkip(packs') THEN "skipped" ELSE "quiesce"
    /\ UNCHANGED <<world, fresh, found, todo, stopped, began, good, bounds>>

\* Nothing upstream: a success that imports nothing.
Nothing ==
    /\ pc = "nothing"
    /\ SaveSuccess /\ good' = began /\ pc' = "idle"
    /\ UNCHANGED <<world, found, packs, todo, stopped, began, bounds>>

Skipped ==
    /\ pc = "skipped" /\ pc' = "idle"
    /\ UNCHANGED <<world, fresh, run, bounds>>

\* Mutant: a stop that fails is logged and the steps run.
QuiesceLogsOnly ==
    /\ pc = "quiesce"
    /\ \/ brain' = FALSE /\ UNCHANGED bounds
       \/ CallFails /\ UNCHANGED brain
    /\ stopped' = TRUE /\ pc' = "mailLeaf"
    /\ UNCHANGED <<landed, kbSeen, leaf, graph, annFile, fresh, found, packs, todo, began, good>>

\* quiesceBrain: a container that is not found, or a stop that fails (whether
\* or not it took effect), ends the cycle with nothing to release.
Quiesce ==
    /\ pc = "quiesce"
    /\ \/ /\ brain' = FALSE /\ stopped' = TRUE
          /\ pc' = "mailLeaf" /\ UNCHANGED <<fresh, bounds>>
       \/ /\ CallFails /\ SaveError
          /\ brain' \in {brain, FALSE}
          /\ pc' = "idle" /\ UNCHANGED stopped
    /\ UNCHANGED <<landed, kbSeen, leaf, graph, annFile, found, packs, todo, began, good>>

-----------------------------------------------------------------------------
(* The steps.  Each is one run of a binary on kb.lbug: it imports what has  *)
(* landed by now, or fails, having perhaps written something.               *)

\* The database was written just now.
Touched == kbSeen' = landed

\* Mutant: the error of a step is saved but the cycle goes on to its end.
StepFailsGoesOn ==
    /\ Fail /\ pc' = "finish"
    /\ \/ Touched
       \/ UNCHANGED kbSeen

StepFails ==
    /\ Fail /\ pc' = "release"
    /\ \/ Touched
       \/ UNCHANGED kbSeen

ImportLeafs(S) == leaf' = [s \in Sources |-> IF s \in S THEN landed[s] ELSE leaf[s]]

MailLeaf ==
    /\ pc = "mailLeaf"
    /\ IF gator /\ found \cap Chans # {}
         THEN \/ /\ ImportLeafs(Chans) /\ Touched
                 /\ pc' = "docLeaf" /\ UNCHANGED <<fresh, bounds>>
              \/ StepFails /\ UNCHANGED leaf
         ELSE pc' = "docLeaf" /\ UNCHANGED <<leaf, kbSeen, fresh, bounds>>
    /\ UNCHANGED <<landed, graph, brain, annFile, run>>

\* Mutant: documents are imported only along with mail.
DocLeafWithMail ==
    /\ pc = "docLeaf"
    /\ IF found \cap Docs # {} /\ found \cap Chans # {}
         THEN \/ /\ ImportLeafs(Docs) /\ Touched
                 /\ pc' = "index" /\ UNCHANGED <<fresh, bounds>>
              \/ StepFails /\ UNCHANGED leaf
         ELSE pc' = "index" /\ UNCHANGED <<leaf, kbSeen, fresh, bounds>>
    /\ UNCHANGED <<landed, graph, brain, annFile, run>>

DocLeaf ==
    /\ pc = "docLeaf"
    /\ IF found \cap Docs # {}
         THEN \/ /\ ImportLeafs(Docs) /\ Touched
                 /\ pc' = "index" /\ UNCHANGED <<fresh, bounds>>
              \/ StepFails /\ UNCHANGED leaf
         ELSE pc' = "index" /\ UNCHANGED <<leaf, kbSeen, fresh, bounds>>
    /\ UNCHANGED <<landed, graph, brain, annFile, run>>

\* brain-index: --rebuild removes the database first; --with-mail imports the
\* local corpus.
Kept(f) == IF Rebuild THEN [s \in DOMAIN f |-> 0] ELSE f
Index ==
    /\ pc = "index"
    /\ graph' = Kept(graph)
    /\ \/ /\ leaf' = [s \in Sources |-> IF ~gator /\ s \in Chans THEN landed[s] ELSE Kept(leaf)[s]]
          /\ Touched
          /\ pc' = "graph" /\ todo' = IF gator THEN found \cap Chans ELSE {}
          /\ UNCHANGED <<fresh, bounds>>
       \/ StepFails /\ leaf' = Kept(leaf) /\ UNCHANGED todo
    /\ UNCHANGED <<landed, brain, annFile, found, packs, stopped, began, good>>

Graph(c) ==
    /\ pc = "graph" /\ c \in todo
    /\ \/ /\ graph' = [graph EXCEPT ![c] = landed[c]] /\ Touched
          /\ todo' = todo \ {c} /\ UNCHANGED <<pc, fresh, bounds>>
       \/ StepFails /\ UNCHANGED <<graph, todo>>
    /\ UNCHANGED <<landed, leaf, brain, annFile, found, packs, stopped, began, good>>

GraphDone ==
    /\ pc = "graph" /\ todo = {}
    /\ pc' = IF AnnWired THEN "ann" ELSE "finish"
    /\ UNCHANGED <<world, fresh, run, bounds>>

\* `ann ensure` exits with 3 when the index is disabled; the cycle takes every
\* non-zero exit for a failure.
Ann ==
    /\ pc = "ann"
    /\ \/ /\ AnnEnabled
          /\ annFile' = TRUE /\ pc' = "finish" /\ UNCHANGED <<fresh, bounds>>
       \/ /\ AnnEnabled /\ Fail
          /\ pc' = "release" /\ UNCHANGED annFile
       \/ /\ ~AnnEnabled /\ SaveError
          /\ pc' = "release" /\ UNCHANGED <<annFile, bounds>>
    /\ UNCHANGED <<landed, kbSeen, leaf, graph, brain, run>>

\* Mutant: the brain is released only on the error path.
FinishNoRelease ==
    /\ pc = "finish"
    /\ SaveSuccess /\ good' = began
    /\ pc' = "idle"
    /\ UNCHANGED <<world, found, packs, todo, stopped, began, bounds>>

Finish ==
    /\ pc = "finish"
    /\ SaveSuccess /\ good' = began
    /\ pc' = "release"
    /\ UNCHANGED <<world, found, packs, todo, stopped, began, bounds>>

\* The deferred release.  A start that fails is logged and nothing else.
Release ==
    /\ pc = "release"
    /\ \/ brain' = TRUE /\ UNCHANGED bounds
       \/ CallFails /\ UNCHANGED brain
    /\ stopped' = FALSE /\ pc' = "idle"
    /\ UNCHANGED <<landed, kbSeen, leaf, graph, annFile, fresh, found, packs, todo, began, good>>

\* The process of the loop dies and the supervisor starts it anew; a binary it
\* was running may have written something.
Crash ==
    /\ pc # "idle" /\ crashes < around.deaths /\ crashes' = crashes + 1
    /\ pc' = "idle" /\ stopped' = FALSE
    /\ IF stopped THEN kbSeen' \in {kbSeen, landed} ELSE UNCHANGED kbSeen
    /\ UNCHANGED <<landed, leaf, graph, brain, annFile, fresh, found, packs, todo, began, good, faults, others>>

-----------------------------------------------------------------------------
Step ==
    \/ Begin \/ Discover \/ Decide \/ Nothing \/ Skipped \/ Quiesce
    \/ MailLeaf \/ DocLeaf \/ Index \/ (\E c \in Chans : Graph(c)) \/ GraphDone
    \/ Ann \/ Finish \/ Release

World == (\E s \in Sources : Land(s)) \/ OtherWrite \/ Crash

Cycle == Step /\ UNCHANGED setting
Next == Cycle \/ (World /\ UNCHANGED setting)

Spec == Init /\ [][Next]_vars

\* Run starts the next cycle after the interval, and a cycle goes on.
Fairness == WF_vars(Cycle)
FairSpec == Spec /\ Fairness

-----------------------------------------------------------------------------
(* Properties. *)

Writing == {"mailLeaf", "docLeaf", "index", "graph", "ann"}

\* No binary opens kb.lbug while the brain container holds it, and a brain the
\* cycle stopped is always owed a start.
WritesWhileStopped == pc \in Writing \cup {"finish"} => ~brain /\ stopped

\* What had landed when the last successful cycle began is in the database,
\* whatever cycles failed, crashed or were skipped since.
SuccessImports ==
    /\ \A s \in Sources : leaf[s] >= good[s]
    /\ gator => \A c \in Chans : graph[c] >= good[c]

\* The stale flag of /stats (staleNow), the horizon left out.
Stale ==
    \/ fresh.err \/ ~fresh.indexed
    \/ \E s \in Sources : fresh.pack[s] > kbSeen[s]

\* Packs land between cycles only, nobody else writes the database, the process
\* lives and the Docker engine answers: what is left are failing steps.
Calm == ~around.busy /\ ~around.docker /\ around.writes = 0 /\ around.deaths = 0

\* A view that is not stale shows a pack time whose packs are in the database.
FreshIsImported == Calm /\ ~Stale => \A s \in Sources : leaf[s] >= fresh.pack[s]

\* Neither a cycle that ended with exit 0 nor /stats tells of packs as imported
\* that are not in the database.
WhatIsToldIsImported == SuccessImports /\ FreshIsImported

\* A cycle is skipped only when the projection has every pack it compared with.
SkipOnlyWhenFresh == pc = "skipped" => \A s \in Sources : leaf[s] >= packs[s]

\* Once packs stop landing all of them are in the database, again and again, in
\* calm surroundings: no failed or skipped cycle leaves a pack behind.
EventuallyIndexed == []<>(Calm => \A s \in Sources : leaf[s] >= landed[s])

\* A stopped brain is started again, in calm surroundings.
BrainServes == Calm /\ ~brain ~> brain
=============================================================================

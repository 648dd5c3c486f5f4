----------------------------- MODULE CorpusWatch -----------------------------
(***************************************************************************)
(* bin/brain/watch: it polls the newest modification time under the corpus *)
(* directories and runs brain-index when that has changed.  A version of   *)
(* the corpus is its newest time; files that arrive, change or leave raise *)
(* it, for the walk looks at directories too.                              *)
(***************************************************************************)
EXTENDS Integers

CONSTANTS MaxVersions, MaxWatchFaults

ASSUME PollAssumption == {MaxVersions, MaxWatchFaults} \subseteq Nat

VARIABLES
    version,      \* of the corpus; 0 when there is none
    wpc,          \* "poll", "index" or "sleep"
    lastStamp,    \* the stamp of the last run, in memory
    begun,        \* the version when the last run began to read
    indexed,      \* and that of the last run that succeeded
    wfaults

watcherVars == <<version, wpc, lastStamp, begun, indexed, wfaults>>

\* Files arrive, change or leave at any time, under a running index too.
Touch ==
    /\ version < MaxVersions /\ version' = version + 1
    /\ UNCHANGED <<wpc, lastStamp, begun, indexed, wfaults>>

\* 0 stands for the empty stamp of a corpus without files.
Stamp == version

Poll ==
    /\ wpc = "poll"
    /\ IF Stamp # 0 /\ Stamp # lastStamp
       THEN wpc' = "index" /\ lastStamp' = Stamp /\ begun' = version
       ELSE wpc' = "sleep" /\ UNCHANGED <<lastStamp, begun>>
    /\ UNCHANGED <<version, indexed, wfaults>>

outcome(ok) ==
    /\ indexed' = IF ok THEN begun ELSE indexed
    /\ wfaults' = IF ok THEN wfaults ELSE wfaults + 1
    /\ wfaults' <= MaxWatchFaults

\* Mutant: the stamp is taken again when the run is over.
ReindexThenStamp ==
    /\ wpc = "index" /\ wpc' = "sleep"
    /\ \E ok \in BOOLEAN : outcome(ok)
    /\ lastStamp' = Stamp
    /\ UNCHANGED <<version, begun>>

\* A run that fails is logged; the stamp stands.
reindex ==
    /\ wpc = "index" /\ wpc' = "sleep"
    /\ \E ok \in BOOLEAN : outcome(ok)
    /\ UNCHANGED <<version, lastStamp, begun>>

Sleep ==
    /\ wpc = "sleep" /\ wpc' = "poll"
    /\ UNCHANGED <<version, lastStamp, begun, indexed, wfaults>>

\* The program dies and is started again with nothing in memory.
Restarted ==
    /\ wfaults < MaxWatchFaults /\ wfaults' = wfaults + 1
    /\ wpc' = "poll" /\ lastStamp' = 0
    /\ UNCHANGED <<version, begun, indexed>>

WatcherInit ==
    /\ version \in {0, 1} /\ wpc = "poll" /\ lastStamp = 0
    /\ begun = 0 /\ indexed = 0 /\ wfaults = 0

WatcherStep == Poll \/ reindex \/ Sleep
WatcherNext == Touch \/ WatcherStep \/ Restarted

-----------------------------------------------------------------------------
(* A change that no run has begun after is ahead of the stamp remembered, so *)
(* that the next poll sees it; and from any state on there comes one where   *)
(* the newest run has begun after every change of the corpus, however those  *)
(* fell between two polls or into a run.                                     *)
ChangesStayAhead == begun # version => Stamp # 0 /\ Stamp # lastStamp
EveryChangeIsTried == [](ChangesStayAhead /\ <>(begun = version))
=============================================================================

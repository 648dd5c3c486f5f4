------------------------------ MODULE MailWatch -----------------------------
(***************************************************************************)
(* The watch loop of internal/mailsync: fetch new mail, convert each .eml  *)
(* to markdown (message.md, then one file per attachment), post what the   *)
(* state file does not list to the brain's /ingest, and wait for the next  *)
(* change.  Messages are numbered in the order filepath.Walk visits them.  *)
(***************************************************************************)
EXTENDS Integers, FiniteSets

CONSTANTS
    NMsgs,       \* messages 1..NMsgs
    Atts,        \* attachments with text, the same of every message
    Refused,     \* messages whose POST the brain answers with an error, always
    MaxFaults,   \* bound on failing fetches, conversions, writes and posts
    MaxCrashes   \* bound on deaths of the loop's process

Msgs == 1..NMsgs

ASSUME WatchAssumption ==
    /\ NMsgs \in Nat \ {0} /\ IsFiniteSet(Atts)
    /\ Refused \subseteq Msgs
    /\ MaxFaults \in Nat /\ MaxCrashes \in Nat

VARIABLES
    arrived,  \* messages on the server
    eml,      \* messages downloaded
    md,       \* per message: message.md is "none", "torn" or "ok"
    attMd,    \* per message: attachments whose whole markdown is on disk
    brain,    \* per message: what the brain has of it, with its attachments
    saved,    \* messages the state file lists
    state,    \* the same in memory, while a push runs
    pc,       \* stage of the cycle
    cur,      \* the message the stage is at
    left,     \* attachments still to be converted
    found,    \* the message.md files the push walk found
    taken,    \* messages the brain has taken
    repeats,  \* how often it took one it had taken before
    faults, crashes   \* what the bounds count

onDisk == <<eml, md, attMd>>
brainHas == <<brain, taken, repeats>>
vars == <<arrived, onDisk, brainHas, saved, state, pc, cur, left, found, faults, crashes>>

Nothing == [message |-> FALSE, atts |-> {}]

Init ==
    /\ arrived = {} /\ eml = {}
    /\ md = [m \in Msgs |-> "none"] /\ attMd = [m \in Msgs |-> {}]
    /\ brain = [m \in Msgs |-> Nothing]
    /\ saved = {} /\ state = {} /\ pc = "wait" /\ cur = 1 /\ left = {} /\ found = {}
    /\ taken = {} /\ repeats = 0
    /\ faults = 0 /\ crashes = 0

Arrive(m) ==
    /\ m \notin arrived
    /\ arrived' = arrived \cup {m}
    /\ UNCHANGED <<onDisk, brainHas, saved, state, pc, cur, left, found, faults, crashes>>

Fault == faults < MaxFaults /\ faults' = faults + 1

-----------------------------------------------------------------------------
\* waitForChange returns, on a change or after the quiet window.
Wake ==
    /\ pc = "wait" /\ pc' = "sync"
    /\ UNCHANGED <<arrived, onDisk, brainHas, saved, state, cur, left, found, faults, crashes>>

\* A failing listing ends the cycle; a failing message is left for the next.
Sync ==
    /\ pc = "sync" /\ cur' = 1
    /\ \/ eml' = arrived /\ pc' = "convert" /\ UNCHANGED faults
       \/ Fault /\ eml' \in {eml \cup S : S \in SUBSET arrived} /\ pc' = "convert"
       \/ Fault /\ UNCHANGED eml /\ pc' = "wait"
    /\ UNCHANGED <<arrived, md, attMd, brainHas, saved, state, left, found, crashes>>

-----------------------------------------------------------------------------
(* FromEML: what has a non-empty message.md is skipped. *)

NextMessage == cur' = cur + 1

ConvertSkip ==
    /\ pc = "convert" /\ cur \in Msgs
    /\ cur \notin eml \/ md[cur] # "none"
    /\ NextMessage
    /\ UNCHANGED <<arrived, onDisk, brainHas, saved, state, pc, left, found, faults, crashes>>

\* Parsing fails before anything is written, WriteFile in the middle.
ConvertBody ==
    /\ pc = "convert" /\ cur \in eml /\ md[cur] = "none"
    /\ \/ /\ md' = [md EXCEPT ![cur] = "torn"]
          /\ pc' = "body" /\ UNCHANGED <<cur, faults>>
       \/ Fault /\ NextMessage /\ UNCHANGED <<md, pc>>
    /\ UNCHANGED <<arrived, eml, attMd, brainHas, saved, state, left, found, crashes>>

BodyWritten ==
    /\ pc = "body"
    /\ \/ /\ md' = [md EXCEPT ![cur] = "ok"]
          /\ pc' = "atts" /\ left' = Atts /\ UNCHANGED <<cur, faults>>
       \/ /\ Fault /\ md' \in {md, [md EXCEPT ![cur] = "none"]}
          /\ NextMessage /\ pc' = "convert" /\ UNCHANGED left
    /\ UNCHANGED <<arrived, eml, attMd, brainHas, saved, state, found, crashes>>

\* The first attachment that cannot be written ends the message.
ConvertAtt(a) ==
    /\ pc = "atts" /\ a \in left
    /\ \/ /\ attMd' = [attMd EXCEPT ![cur] = @ \cup {a}]
          /\ left' = left \ {a} /\ UNCHANGED faults
       \/ Fault /\ left' = {} /\ UNCHANGED attMd
    /\ UNCHANGED <<arrived, eml, md, brainHas, saved, state, pc, cur, found, crashes>>

AttsDone ==
    /\ pc = "atts" /\ left = {}
    /\ NextMessage /\ pc' = "convert"
    /\ UNCHANGED <<arrived, onDisk, brainHas, saved, state, left, found, faults, crashes>>

ConvertEnd ==
    /\ pc = "convert" /\ cur > NMsgs
    /\ pc' = "push" /\ cur' = 1
    /\ state' = saved /\ found' = {m \in Msgs : md[m] # "none"}
    /\ UNCHANGED <<arrived, onDisk, brainHas, saved, left, faults, crashes>>

-----------------------------------------------------------------------------
(* PushNewLeafs: message by message; the first error ends the cycle. *)

\* Listed already, or no text in what there is of it.
PushSkip ==
    /\ pc = "push" /\ cur \in Msgs
    /\ \/ cur \in state \/ cur \notin found
       \/ md[cur] = "torn" /\ attMd[cur] = {}
    /\ NextMessage
    /\ UNCHANGED <<arrived, onDisk, brainHas, saved, state, pc, left, found, faults, crashes>>

Taken(m) ==
    /\ brain' = [brain EXCEPT ![m] = [message |-> md[m] = "ok", atts |-> @.atts \cup attMd[m]]]
    /\ taken' = taken \cup {m} /\ repeats' = IF m \in taken THEN repeats + 1 ELSE repeats

\* Mutant: a message that was not taken is marked like one that was.
PostAnyAnswer ==
    /\ pc = "push" /\ cur \in found \ state
    /\ \/ cur \notin Refused /\ Taken(cur) /\ pc' = "mark" /\ UNCHANGED faults
       \/ cur \in Refused /\ pc' = "mark" /\ UNCHANGED <<brainHas, faults>>
       \/ Fault /\ pc' = "mark" /\ UNCHANGED brainHas
    /\ UNCHANGED <<arrived, onDisk, saved, state, cur, left, found, crashes>>

\* The brain takes the leafs and says so; it takes them and the answer is
\* lost; or it does not take them.
Post ==
    /\ pc = "push" /\ cur \in found \ state
    /\ \/ cur \notin Refused /\ Taken(cur) /\ pc' = "mark" /\ UNCHANGED faults
       \/ cur \in Refused /\ pc' = "wait" /\ UNCHANGED <<brainHas, faults>>
       \/ Fault /\ pc' = "wait" /\ cur \notin Refused /\ Taken(cur)
       \/ Fault /\ pc' = "wait" /\ UNCHANGED brainHas
    /\ UNCHANGED <<arrived, onDisk, saved, state, cur, left, found, crashes>>

\* Mutant: the state file is written once, at the end of the walk.
MarkInMemory ==
    /\ pc = "mark"
    /\ state' = state \cup {cur} /\ saved' = IF cur = NMsgs THEN state' ELSE saved
    /\ pc' = "push" /\ NextMessage
    /\ UNCHANGED <<arrived, onDisk, brainHas, left, found, faults, crashes>>

\* saveWatchState: written aside, renamed.
Mark ==
    /\ pc = "mark"
    /\ state' = state \cup {cur}
    /\ \/ saved' = state' /\ pc' = "push" /\ NextMessage /\ UNCHANGED faults
       \/ Fault /\ pc' = "wait" /\ UNCHANGED <<saved, cur>>
    /\ UNCHANGED <<arrived, onDisk, brainHas, left, found, crashes>>

PushEnd ==
    /\ pc = "push" /\ cur > NMsgs
    /\ pc' = "wait"
    /\ UNCHANGED <<arrived, onDisk, brainHas, saved, state, cur, left, found, faults, crashes>>

\* A file just created is empty until its first bytes are written.
Crash ==
    /\ pc # "wait" /\ crashes < MaxCrashes /\ crashes' = crashes + 1
    /\ pc' = "wait" /\ left' = {}
    /\ md' \in IF pc = "body" THEN {md, [md EXCEPT ![cur] = "none"]} ELSE {md}
    /\ UNCHANGED <<arrived, eml, attMd, brainHas, saved, state, cur, found, faults>>

-----------------------------------------------------------------------------
Cycle ==
    \/ Wake \/ Sync \/ ConvertSkip \/ ConvertBody \/ BodyWritten
    \/ (\E a \in Atts : ConvertAtt(a)) \/ AttsDone \/ ConvertEnd
    \/ PushSkip \/ Post \/ Mark \/ PushEnd

Next == Cycle \/ (\E m \in Msgs : Arrive(m)) \/ Crash

Spec == Init /\ [][Next]_vars

\* The loop runs; the quiet window of waitForChange is finite.
FairSpec == Spec /\ WF_vars(Cycle)

-----------------------------------------------------------------------------
(* Properties. *)

\* A message is posted again only after a fault or a crash, and each of them
\* costs one post at most.
RepostsAreBounded == repeats <= faults + crashes

\* A message the brain always refuses stops whatever is behind it in the walk
\* (watch.go:285).
Blocked(m) == \E n \in Refused : n <= m

\* Every other message is taken, unless its conversion was cut short in the
\* middle of message.md, which is never written again (mailconv.go:186).
EventuallyIngested ==
    \A m \in Msgs : ~Blocked(m) =>
        (m \in arrived ~> m \in taken \/ md[m] = "torn")
=============================================================================

----------------------------- MODULE StackWave -----------------------------
(***************************************************************************)
(* The sync wave of bin/stack/sync.go: a fixed list of steps, each a few   *)
(* commands, run one after the other.  Before the steps that open kb.lbug  *)
(* the wave stops who serves the brain: the compose container, the local   *)
(* API and the local embedding daemon.  At its end it starts the container *)
(* again; the script it calls for the local processes does not exist.      *)
(***************************************************************************)
EXTENDS Integers, Sequences, FiniteSets

CONSTANTS
    WaveOptions,    \* command lines: records of chats, mail, contacts, git, dry, only
    Unconfigured,   \* tools that exit with ExitSkip
    MaxWaveFaults   \* bound on failing commands and calls

VARIABLES
    wopts,       \* the command line
    wstage,      \* "start", "quiesce", "wait", "steps", "restart", "done" or "killed"
    wstep, wcmd, \* the step and the command of it that comes next
    wskips,      \* commands of the step that asked to be skipped
    outcome,     \* per step so far: "ok", "skip", "fail", or "left" when not asked for
    container,   \* does the compose container run
    api, daemon, \* local brain-serve and brain-search serve: "up", "dying" after a
                 \* SIGTERM, or "down"
    servedBefore,      \* what served when the wave began
    cStopped,    \* containerStopped
    stoppedAny,  \* the restart is deferred
    mishap,      \* a stop that failed stopped the container all the same, or its
                 \* start failed
    waveFaults

plan == <<wstep, wcmd, wskips, outcome>>
locals == <<api, daemon>>
memory == <<wopts, servedBefore>>
waveVars == <<memory, wstage, plan, container, locals, cStopped, stoppedAny, mishap, waveFaults>>

-----------------------------------------------------------------------------
StepOf(name, cmds, asked) == [name |-> name, cmds |-> cmds, asked |-> asked]

PlanSteps(o) ==
    <<StepOf("mail", <<"mail/sync">>, TRUE),
      StepOf("mail-import", <<"mail/import">>, TRUE),
      StepOf("mail-index", <<"brain/index">>, o.mail),
      StepOf("ann-build", <<"brain/ann">>, TRUE),
      StepOf("chats", <<"chat/sync telegram", "chat/sync linkedin">>, o.chats),
      StepOf("contact-brain", <<"brain/import-contact">>, o.contacts),
      StepOf("git-brain", <<"brain/import-git">>, o.git),
      StepOf("contact-crm", <<"onlyoffice/import-contact">>, o.contacts)>>

BrainTools == {"brain/index", "brain/ann", "brain/import-contact", "brain/import-git"}
DbSteps == {"contact-brain", "git-brain", "mail-index", "ann-build"}
WaveSteps == {PlanSteps(wopts)[i] : i \in DOMAIN PlanSteps(wopts)}
Included(st) == wopts.only = {} \/ st.name \in wopts.only

\* A step that would be run and opens the database.
NeedWrite == ~wopts.dry /\ \E st \in WaveSteps : st.name \in DbSteps /\ Included(st) /\ st.asked

Gone(p) == p = "down"
BrainServing == container \/ ~Gone(api) \/ ~Gone(daemon)

\* Who has kb.lbug open: the daemon opens no database.
Locked == container \/ ~Gone(api)

WaveFault == waveFaults < MaxWaveFaults /\ waveFaults' = waveFaults + 1

\* At most one brain-serve can hold kb.lbug.
WaveInit ==
    /\ wopts \in WaveOptions
    /\ container \in BOOLEAN /\ api \in {"up", "down"} /\ daemon \in {"up", "down"}
    /\ container => Gone(api)
    /\ servedBefore = [container |-> container, api |-> api, daemon |-> daemon]
    /\ wstage = "start" /\ wstep = 1 /\ wcmd = 1 /\ wskips = 0 /\ outcome = <<>>
    /\ cStopped = FALSE /\ stoppedAny = FALSE /\ mishap = FALSE /\ waveFaults = 0

\* Who serves is asked of pgrep and of docker, whose error counts as a no.
WaveStart ==
    /\ wstage = "start"
    /\ \/ stoppedAny' = (NeedWrite /\ BrainServing) /\ UNCHANGED waveFaults
       \/ Gone(api) /\ Gone(daemon) /\ WaveFault /\ stoppedAny' = FALSE
    /\ wstage' = IF stoppedAny' THEN "quiesce" ELSE "steps"
    /\ UNCHANGED <<memory, plan, container, locals, cStopped, mishap>>

-----------------------------------------------------------------------------
(* quiesceBrain: a SIGTERM to the local processes, a stop of the container,  *)
(* whose failure is only a warning, and a bounded wait for all to be gone.   *)

Terminated(p) == IF p = "up" THEN "dying" ELSE p

\* Mutant: whether the container was stopped is told only when the wait succeeds
\* at once.
StopBrainForgets ==
    /\ wstage = "quiesce" /\ wstage' = "wait"
    /\ api' = Terminated(api) /\ daemon' = Terminated(daemon)
    /\ \/ container' = FALSE /\ cStopped' = FALSE /\ UNCHANGED <<mishap, waveFaults>>
       \/ /\ container /\ WaveFault
          /\ container' \in BOOLEAN /\ mishap' = ~container' /\ UNCHANGED cStopped
    /\ UNCHANGED <<memory, plan, stoppedAny>>

StopBrain ==
    /\ wstage = "quiesce" /\ wstage' = "wait"
    /\ api' = Terminated(api) /\ daemon' = Terminated(daemon)
    /\ \/ container' = FALSE /\ cStopped' = container /\ UNCHANGED <<mishap, waveFaults>>
       \/ /\ container /\ WaveFault
          /\ container' \in BOOLEAN /\ mishap' = ~container' /\ UNCHANGED cStopped
    /\ UNCHANGED <<memory, plan, stoppedAny>>

LocalGone ==
    /\ \/ api = "dying" /\ api' = "down" /\ UNCHANGED daemon
       \/ daemon = "dying" /\ daemon' = "down" /\ UNCHANGED api
    /\ UNCHANGED <<memory, wstage, plan, container, cStopped, stoppedAny, mishap, waveFaults>>

\* The wave goes on when nobody serves, or when it has waited long enough.
WaitReleased ==
    /\ wstage = "wait" /\ wstage' = "steps"
    /\ UNCHANGED <<memory, plan, container, locals, cStopped, stoppedAny, mishap, waveFaults>>

-----------------------------------------------------------------------------
(* The steps.  Brain tools run under `go run`, which turns every exit code  *)
(* into 1, and fail while somebody else holds the database.                 *)

NextStep(o) ==
    /\ outcome' = Append(outcome, o)
    /\ wstep' = wstep + 1 /\ wcmd' = 1 /\ wskips' = 0
    /\ wstage' = IF wstep = Len(PlanSteps(wopts)) THEN "restart" ELSE wstage

StepLeft ==
    LET st == PlanSteps(wopts)[wstep] IN
    /\ wstage = "steps"
    /\ ~Included(st) \/ ~st.asked \/ wopts.dry
    /\ NextStep("left")
    /\ UNCHANGED <<memory, container, locals, cStopped, stoppedAny, mishap, waveFaults>>

CommandSkips(c) == c \in Unconfigured \ BrainTools
CommandMustFail(c) == c \in BrainTools /\ (Locked \/ c \in Unconfigured)

RunCommand ==
    LET st == PlanSteps(wopts)[wstep]
        c == st.cmds[wcmd]
        skips == wskips + (IF CommandSkips(c) THEN 1 ELSE 0)
    IN
    /\ wstage = "steps" /\ Included(st) /\ st.asked /\ ~wopts.dry
    /\ \/ /\ ~CommandMustFail(c)
          /\ IF wcmd < Len(st.cmds)
               THEN wcmd' = wcmd + 1 /\ wskips' = skips /\ UNCHANGED <<wstage, wstep, outcome>>
               ELSE NextStep(IF skips = Len(st.cmds) THEN "skip" ELSE "ok")
          /\ UNCHANGED waveFaults
       \/ /\ \/ CommandMustFail(c) /\ UNCHANGED waveFaults
             \/ ~CommandSkips(c) /\ WaveFault
          /\ NextStep("fail")
    /\ UNCHANGED <<memory, container, locals, cStopped, stoppedAny, mishap>>

\* restartBrain: the container if the wave stopped it.  Else bin/stack/serve-brain
\* is called, which does not exist (it is scripts/stack/serve-brain), and the
\* error is dropped: nothing is started.
RestartBrain ==
    /\ wstage = "restart" /\ wstage' = "done"
    /\ \/ stoppedAny /\ cStopped /\ container' = TRUE /\ UNCHANGED <<mishap, waveFaults>>
       \/ stoppedAny /\ cStopped /\ WaveFault /\ mishap' = TRUE /\ UNCHANGED container
       \/ ~(stoppedAny /\ cStopped) /\ UNCHANGED <<container, mishap, waveFaults>>
    /\ UNCHANGED <<memory, plan, locals, cStopped, stoppedAny>>

\* A signal ends the wave without what it deferred.
WaveKilled ==
    /\ wstage \notin {"done", "killed"} /\ wstage' = "killed"
    /\ WaveFault
    /\ UNCHANGED <<memory, plan, container, locals, cStopped, stoppedAny, mishap>>

WaveNext ==
    \/ WaveStart \/ StopBrain \/ LocalGone \/ WaitReleased
    \/ StepLeft \/ RunCommand \/ RestartBrain \/ WaveKilled

WaveSpec == WaveInit /\ [][WaveNext]_waveVars

-----------------------------------------------------------------------------
(* When a wave has come to its end the container runs if and only if it did *)
(* before, whatever steps failed and however long the local processes took, *)
(* unless its start failed or a failed stop stopped it all the same.  Local *)
(* processes are never started again; a wave that stopped nobody, or was    *)
(* killed before it did, has left all of them alone.                        *)
WaveRestores ==
    /\ wstage = "done" /\ ~mishap => container = servedBefore.container
    /\ ~stoppedAny => [container |-> container, api |-> api, daemon |-> daemon] = servedBefore
=============================================================================

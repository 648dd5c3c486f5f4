SPECIFICATION IntakeSpec
CONSTANTS
    NMsgs = 3
    Atts = {a1}
    Refused = {3}
    MaxFaults = 2
    MaxCrashes = 1
    Corpora <- MCCorpora
    EtlWorkers = {"w1", "w2"}
    Buffer = 1
    MaxEtlRuns = 2
    MaxEtlFaults = 1
    ArchiveConfigs <- MCArchiveConfigs
    Mailboxes <- MCMailboxes
    PolicyFolders <- MCPolicyFolders
    MaxArchiveRuns = 3
    MaxArchiveFaults = 2
    Imports <- MCImports
    IncubatorCommands <- MCIncubatorCommands
    Every = 2
    Numeric = {"0001", "0002"}
    MaxIncubatorRuns = 3
    MaxIncubatorFaults = 1
    Captures <- MCCaptures
    MaxBrowserEdits = 1
    MaxBrowserFaults = 1
    MaxVersions = 3
    MaxWatchFaults = 2
INVARIANT RepostsAreBounded
INVARIANT LossIsBounded
INVARIANT PipelineNeverStuck
INVARIANT ArchiveIsExact
INVARIANT ManifestsAreTrue
PROPERTY OkCycleIsComplete
PROPERTY EventuallyIngested
PROPERTY EventuallyPushed
PROPERTY EveryChangeIsTried
CHECK_DEADLOCK FALSE

SPECIFICATION JobsSpec
CONSTANTS
    Keys = {"a", "b", "c", "z", "f"}
    Blank = {"z"}
    FactKeys = {"f", "z"}
    Corpora <- MCCorpora
    Commands <- MCCommands
    Chunk = 3
    Batch = 2
    Workers = 2
    MaxRuns = 2
    MaxFaults = 1
    Mails = {"m1", "m2", "m3"}
    Boxes = {"ann", "bob"}
    Shas = {"s1"}
    Repos = {"r1", "r2"}
    Hives <- MCHives
    Histories <- MCHistories
    GraphCommands <- MCGraphCommands
    GraphBatch = 2
    MaxGraphRuns = 2
    MaxGraphFaults = 1
    Chats <- MCChats
    PlatformOf <- MCPlatformOf
    MsgsOf <- MCMsgsOf
    Limit = 1
    Contacts = {1, 2, 3}
    FirstWord <- MCFirstWord
    ListedFor <- MCListedFor
    Matching <- MCMatching
    Within <- MCWithin
    Self = {}
    Attempts = 2
    MaxChatRuns = 4
    MaxChatFaults = 1
    Worlds <- MCWorlds
    Words <- MCWords
    Stopwords = {"client", "gmbh", "ag", "o3"}
    InfoLeafs <- MCInfoLeafs
    JsonFacts <- MCJsonFacts
    ClientLeafs <- MCClientLeafs
    MaxFactJobs = 2
    Writers = {"w1", "w2"}
    Cards <- MCCards
    FactRows <- MCFactRows
    Claims <- MCClaims
    Days <- MCDays
    NoDay = 0
    MaxCards = 4
    MaxCardFaults = 1
    Feeds <- MCFeeds
    MaxWaves = 4
    MaxCanonFaults = 2
    Documents <- MCDocuments
    Brains <- MCBrains
    Asks <- MCAsks
    WaveOptions <- MCWaveOptions
    Unconfigured = {"mail/sync", "brain/ann", "chat/sync linkedin"}
    MaxWaveFaults = 2
    Target = 1
    KindOf <- MCKindOf
    OneWord = {3}
    HandMade = {6}
    HandNames = {"none"}
    CompanyOf <- MCCompanyOf
    Graphs <- MCGraphs
    NetCommands <- MCNetCommands
    CrmCommands <- MCCrmCommands
    Books <- MCBooks
    MaxCrmRuns = 2
    MaxCrmFaults = 1
    MaxHandEdits = 1
INVARIANT RunIsComplete
INVARIANT LinkLoss
INVARIANT ConversationsLinked
INVARIANT SyncedStaysSynced
INVARIANT ImportKeepsChats
INVARIANT ApplySettles
INVARIANT WaveRestores
INVARIANT FactsAreEvidenced
INVARIANT AuditIdsUnique
INVARIANT AuditsDecide
INVARIANT CanonFollows
INVARIANT TablesAreWhole
INVARIANT NothingBetterIsLeftOut
INVARIANT CrmIsTrue
CHECK_DEADLOCK FALSE

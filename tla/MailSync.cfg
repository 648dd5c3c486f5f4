SPECIFICATION FairSpec
CONSTANTS
    Runs = {r1, r2}
    Kind <- MCKind
    Folders <- MCFolders
    Confs <- AllConfs
    Body = "body"
    Atts = {"ics", "txt"}
    Notes = {"note"}
    NoteOf <- MCNoteOf
    TextAtts = {"txt"}
    InlineAtts = {"txt"}
    Workers = 2
    PageSize = 2
    OOPage = 1
    MaxMail = 2
    MaxFaults = 1
    MaxWriteFaults = 1
    MaxStops = 1
INVARIANT LinksAreTrue
PROPERTY EventuallySynced

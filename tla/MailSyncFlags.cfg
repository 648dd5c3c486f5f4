SPECIFICATION Spec
CONSTANTS
    Runs = {r1}
    Kind <- MCKind
    Folders <- MCFolders
    Confs <- FlagConfs
    Body = "body"
    Atts = {"ics", "txt"}
    Notes = {"note"}
    NoteOf <- MCNoteOf
    TextAtts = {"txt"}
    InlineAtts = {"txt"}
    Workers = 2
    PageSize = 2
    OOPage = 1
    MaxMail = 2
    MaxFaults = 1
    MaxWriteFaults = 0
    MaxStops = 0
INVARIANT NothingLost

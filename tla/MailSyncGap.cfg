SPECIFICATION Spec
CONSTANTS
    Runs = {r1}
    Kind <- MCKind
    Folders <- MCFolders
    Confs <- GapConfs
    Body = "body"
    Atts = {"ics", "txt"}
    Notes = {"note"}
    NoteOf <- MCNoteOf
    TextAtts = {"txt"}
    InlineAtts = {"txt"}
    Workers = 2
    PageSize = 2
    OOPage = 1
    MaxMail = 1
    MaxFaults = 1
    MaxWriteFaults = 1
    MaxStops = 0
INVARIANT NothingMissing

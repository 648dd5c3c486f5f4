SPECIFICATION Spec
CONSTANTS
    Chans = {c1}
    Docs = {d}
    GatorModes = {TRUE, FALSE}
    Rebuild = FALSE
    AnnWired = TRUE
    AnnEnabled = TRUE
    MaxPacks = 2
    Surroundings <- BusyOnly
INVARIANT SkipOnlyWhenFresh

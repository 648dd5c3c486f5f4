SPECIFICATION FairSpec
CONSTANTS
    Chans = {c1}
    Docs = {d}
    GatorModes = {TRUE, FALSE}
    Rebuild = FALSE
    AnnWired = TRUE
    AnnEnabled = TRUE
    MaxPacks = 2
    Surroundings <- CalmAndRough
INVARIANT WritesWhileStopped
INVARIANT WhatIsToldIsImported
PROPERTY BrainServes
PROPERTY EventuallyIndexed

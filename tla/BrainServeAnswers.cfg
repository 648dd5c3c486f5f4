SPECIFICATION FairSpec
CONSTANTS
    Reqs = {r1, r2}
    Nobody = Nobody
    l1 = l1
    l2 = l2
    e = e
    Leafs <- MCLeafs
    Edges <- MCEdges
    Ends <- MCEnds
    IndexIds <- MCIndexIds
    Workers = 2
    Warm = {TRUE}
    AnnOn = TRUE
    MaxKills = 1
    MaxOpenFaults = 1
    MaxForeign = 1
INVARIANT HandleRestored
PROPERTY EveryRequestEnds

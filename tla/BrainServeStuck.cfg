SPECIFICATION FairSpec
CONSTANTS
    Reqs = {r1, r2}
    Nobody = Nobody
    l1 = l1
    l2 = l2
    e = e
    Leafs <- MCLeafs
    Edges <- MCEdges
    Ends <- MCEnds
    IndexIds <- MCIndexIds
    Workers = 2
    Warm = {FALSE}
    AnnOn = TRUE
    MaxKills = 0
    MaxOpenFaults = 0
    MaxForeign = 0
PROPERTY EveryRequestEnds
CHECK_DEADLOCK FALSE

SPECIFICATION Spec
CONSTANTS
    Reqs = {r1, r2, r3}
    Nobody = Nobody
    l1 = l1
    l2 = l2
    e = e
    Leafs <- MCLeafs
    Edges <- MCEdges
    Ends <- MCEnds
    IndexIds <- MCIndexIds
    Workers = 2
    Warm = {TRUE, FALSE}
    AnnOn = TRUE
    MaxKills = 0
    MaxOpenFaults = 0
    MaxForeign = 1
SYMMETRY Symmetry
INVARIANT OneHandle
INVARIANT ReadYourIngest
PROPERTY NoUseAfterClose
CHECK_DEADLOCK FALSE

SPECIFICATION SearchSpec
CONSTANTS
    Brains <- MCBrains
    Asks <- MCAsks
INVARIANT FilteredIsFound
CHECK_DEADLOCK FALSE

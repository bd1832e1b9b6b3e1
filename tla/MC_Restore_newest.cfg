CONSTANTS
    f1 = f1
    f2 = f2
    x = x
    none = none
    Paths <- MCPaths
    Backups <- MCBackups
    MTimes <- MCMTimes
    NoFile = none
SPECIFICATION Spec
INVARIANT
    SelectsNewest
